---- MODULE Spec2Model ----
(***************************************************************************)
(* pathsqlx: PathQuery executes a SQL query and reshapes the flat rows     *)
(* into a nested tree.  The model follows the Go code: the structural      *)
(* analysis of the query, the cardinality / path inference, the collection *)
(* of the rows and the reconstruction pipeline groupBySeparator ->         *)
(* addHashes -> combineIntoTree -> removeHashes.                           *)
(*                                                                         *)
(* Go strings are sequences of tokens: "$", ".", "[]", an identifier, or   *)
(* the "!<md5>!" token that addHashes writes.  strings.Split, Join,        *)
(* Replace, HasPrefix, HasSuffix and LastIndex are computed on the tokens. *)
(* An orderedmap.OrderedMap is a sequence of entries [k, n] in insertion   *)
(* order; a tree node is a leaf, an ordered map or a slice.                *)
(***************************************************************************)
EXTENDS Integers, Sequences, FiniteSets, TLC

\* ---------------------------------------------------------------- bounds
\* Rows the executor delivers at most in one call.
MaxRows == 3

\* ---------------------------------------------------------------- strings
Tok(k, s) == [k |-> k, s |-> s]
DOLLAR == Tok("dollar", "$")
DOT == Tok("dot", ".")
ARR == Tok("arr", "[]")
Id(s) == Tok("id", s)
\* the "!" + hex(md5) + "!" part of a rewritten key; h stands for the digest
HashTok(h) == Tok("hash", h)

\* hex.EncodeToString(md5[:]) has 32 characters
HashHexLen == 32

Last(s) == s[Len(s)]
Front(s) == SubSeq(s, 1, Len(s) - 1)

\* len(string) in bytes
RECURSIVE StrLen(_)
StrLen(str) ==
  IF str = <<>> THEN 0
  ELSE (IF Head(str).k = "hash" THEN HashHexLen + 2 ELSE Len(Head(str).s))
       + StrLen(Tail(str))

HasPrefix(str, pre) ==
  Len(pre) <= Len(str) /\ SubSeq(str, 1, Len(pre)) = pre

HasSuffix(str, suf) ==
  Len(suf) <= Len(str) /\ SubSeq(str, Len(str) - Len(suf) + 1, Len(str)) = suf

Contains(str, t) == \E i \in 1..Len(str) : str[i] = t

\* strings.LastIndex(str, t) as a token position, 0 when absent
LastIndex(str, t) ==
  IF Contains(str, t)
  THEN CHOOSE i \in 1..Len(str) :
         str[i] = t /\ \A j \in (i + 1)..Len(str) : str[j] # t
  ELSE 0

\* strings.Split(str, sep) for a one-token separator
RECURSIVE SplitAcc(_, _, _)
SplitAcc(str, sep, cur) ==
  IF str = <<>> THEN <<cur>>
  ELSE IF Head(str) = sep THEN <<cur>> \o SplitAcc(Tail(str), sep, <<>>)
  ELSE SplitAcc(Tail(str), sep, Append(cur, Head(str)))

Split(str, sep) == SplitAcc(str, sep, <<>>)

\* strings.Join(parts, sep)
RECURSIVE Join(_, _)
Join(parts, sep) ==
  IF parts = <<>> THEN <<>>
  ELSE IF Len(parts) = 1 THEN parts[1]
  ELSE parts[1] \o <<sep>> \o Join(Tail(parts), sep)

\* strings.Replace(str, search, repl, -1): non-overlapping, left to right
RECURSIVE Replace(_, _, _)
Replace(str, search, repl) ==
  IF search = <<>> \/ Len(str) < Len(search) THEN str
  ELSE IF HasPrefix(str, search)
       THEN repl \o Replace(SubSeq(str, Len(search) + 1, Len(str)), search, repl)
       ELSE <<Head(str)>> \o Replace(Tail(str), search, repl)

\* ---------------------------------------------------------------- ordered maps and trees
Leaf(v) == [tag |-> "leaf", v |-> v, ch |-> <<>>]
Map(ents) == [tag |-> "map", v |-> "", ch |-> ents]
Slice(items) == [tag |-> "arr", v |-> "", ch |-> items]
Ent(k, n) == [k |-> k, n |-> n]
\* a nil *orderedmap.OrderedMap
NilMap == [tag |-> "nil", v |-> "", ch |-> <<>>]

OMHas(ents, k) == \E i \in 1..Len(ents) : ents[i].k = k
OMIdx(ents, k) == CHOOSE i \in 1..Len(ents) : ents[i].k = k
OMGet(ents, k) == ents[OMIdx(ents, k)].n
\* OrderedMap.Set: a new key is appended, an existing key keeps its position
OMSet(ents, k, n) ==
  IF OMHas(ents, k)
  THEN [ents EXCEPT ![OMIdx(ents, k)] = Ent(k, n)]
  ELSE Append(ents, Ent(k, n))
OMKeys(ents) == [i \in 1..Len(ents) |-> ents[i].k]

\* ---------------------------------------------------------------- row collection
\* the key getAllRecords stores a cell under: the path without its leading "$"
\* and without a "[]" that ends its final segment
RecordKey(path) ==
  LET p1 == IF HasPrefix(path, <<DOLLAR>>) THEN Tail(path) ELSE path
      lastDot == LastIndex(p1, DOT)
  IN IF lastDot > 0 /\ lastDot < Len(p1) /\ Last(p1) = ARR
     THEN Front(p1)
     ELSE p1

\* a NULL cell: SliceScan delivers nil, which json.Marshal writes as null,
\* unlike any other value
Null == "NULL"

\* the record of a row without its NULL cells
RECURSIVE RecordOf_SkipNull(_, _, _)
RecordOf_SkipNull(row, paths, record) ==
  IF row = <<>> THEN record
  ELSE RecordOf_SkipNull(Tail(row), Tail(paths),
                         IF Head(row) = Null THEN record
                         ELSE OMSet(record, RecordKey(Head(paths)), Leaf(Head(row))))

\* one iteration of the rows.Next() loop: the record of one scanned row
RECURSIVE RecordOf(_, _, _)
RecordOf(row, paths, record) ==
  IF row = <<>> THEN record
  ELSE RecordOf(Tail(row), Tail(paths),
                OMSet(record, RecordKey(Head(paths)), Leaf(Head(row))))

\* ---------------------------------------------------------------- reconstruction
RECURSIVE GroupRecord(_, _, _)
GroupRecord(record, separator, result) ==
  IF record = <<>> THEN result
  ELSE LET name == Head(record).k
           value == Head(record).n
           parts == Split(name, separator)
           newName == Last(parts)
           joined == Join(Front(parts), separator)
           path == IF Len(parts) - 1 > 0 THEN joined \o <<separator>> ELSE joined
           r1 == IF OMHas(result, path) THEN result
                 ELSE OMSet(result, path, Map(<<>>))
           subResultMap == OMGet(r1, path)
       IN GroupRecord(Tail(record), separator,
                      OMSet(r1, path, Map(OMSet(subResultMap.ch, newName, value))))

groupBySeparator(records, separator) ==
  [i \in 1..Len(records) |-> GroupRecord(records[i], separator, <<>>)]

\* one digest for every segment
HashOf_Constant(part) == "0"

\* hex(md5(json.Marshal(part))): a function of the keys and values of the
\* segment in their order, taken to be free of collisions
HashOf(part) == ToString(part.ch)

\* the mapping addHashes builds for one record: search key -> replacement
RECURSIVE HashMapping(_, _)
HashMapping(record, mapping) ==
  IF record = <<>> THEN mapping
  ELSE LET key == Head(record).k
           part == Head(record).n
       IN IF key = <<>> \/ Last(key) # ARR
          THEN HashMapping(Tail(record), mapping)
          ELSE HashMapping(Tail(record),
                 OMSet(mapping, key, Front(key) \o <<DOT, HashTok(HashOf(part))>>))

\* sort.Sort(ByRevLen(keys)): longest first; keys of one length never contain
\* one another, so their mutual order is kept as it is
RECURSIVE InsertByRevLen(_, _)
InsertByRevLen(sorted, key) ==
  IF sorted = <<>> THEN <<key>>
  ELSE IF StrLen(key) > StrLen(Head(sorted)) THEN <<key>> \o sorted
  ELSE <<Head(sorted)>> \o InsertByRevLen(Tail(sorted), key)

\* the keys left in the order they were collected in
ByRevLen_Unsorted(keys) == keys

RECURSIVE ByRevLen(_)
ByRevLen(keys) ==
  IF keys = <<>> THEN <<>>
  ELSE InsertByRevLen(ByRevLen(Front(keys)), Last(keys))

RECURSIVE ReplaceEach(_, _, _)
ReplaceEach(key, mappingKeys, mapping) ==
  IF mappingKeys = <<>> THEN key
  ELSE ReplaceEach(Replace(key, Head(mappingKeys), OMGet(mapping, Head(mappingKeys))),
                   Tail(mappingKeys), mapping)

RECURSIVE RewriteKeys(_, _, _, _)
RewriteKeys(record, mappingKeys, mapping, result) ==
  IF record = <<>> THEN result
  ELSE RewriteKeys(Tail(record), mappingKeys, mapping,
         OMSet(result, ReplaceEach(Head(record).k, mappingKeys, mapping),
               Head(record).n))

HashRecord(record) ==
  LET mapping == HashMapping(record, <<>>)
      mappingKeys == ByRevLen(OMKeys(mapping))
  IN RewriteKeys(record, mappingKeys, mapping, <<>>)

addHashes(records) == [i \in 1..Len(records) |-> HashRecord(records[i])]

\* the walk of combineIntoTree for one leaf: ok = FALSE is the nil-pointer
\* panic of calling Get or Set on a nil *OrderedMap
RECURSIVE TreeInsert(_, _, _, _)
TreeInsert(current, path, newName, v) ==
  IF current.tag # "map" THEN [ok |-> FALSE, node |-> NilMap]
  ELSE IF path = <<>>
       THEN [ok |-> TRUE, node |-> Map(OMSet(current.ch, newName, v))]
  ELSE LET p == Head(path)
           c1 == IF OMHas(current.ch, p) THEN current.ch
                 ELSE OMSet(current.ch, p, Map(<<>>))
           next == OMGet(c1, p)
           nextMap == IF next.tag = "map" THEN next ELSE NilMap
           sub == TreeInsert(nextMap, Tail(path), newName, v)
       IN IF sub.ok
          THEN [ok |-> TRUE, node |-> Map(OMSet(c1, p, sub.node))]
          ELSE sub

RECURSIVE CombineLeaves(_, _, _, _)
CombineLeaves(name, leaves, separator, acc) ==
  IF leaves = <<>> \/ ~acc.ok THEN acc
  ELSE LET path == Split(name \o Head(leaves).k, separator)
           r == TreeInsert(acc.node, Front(path), Last(path), Head(leaves).n)
       IN CombineLeaves(name, Tail(leaves), separator, r)

RECURSIVE CombineRecord(_, _, _)
CombineRecord(record, separator, acc) ==
  IF record = <<>> \/ ~acc.ok THEN acc
  ELSE CombineRecord(Tail(record), separator,
         CombineLeaves(Head(record).k, Head(record).n.ch, separator, acc))

RECURSIVE CombineRecords(_, _, _)
CombineRecords(records, separator, acc) ==
  IF records = <<>> \/ ~acc.ok THEN acc
  ELSE CombineRecords(Tail(records), separator,
         CombineRecord(Head(records), separator, acc))

\* [ok, node]: node is results.Get("") as a map, NilMap when it is absent
combineIntoTree(records, separator) ==
  LET results == CombineRecords(records, separator, [ok |-> TRUE, node |-> Map(<<>>)])
  IN IF ~results.ok THEN results
     ELSE IF OMHas(results.node.ch, <<>>) /\ OMGet(results.node.ch, <<>>).tag = "map"
          THEN [ok |-> TRUE, node |-> OMGet(results.node.ch, <<>>)]
          ELSE [ok |-> TRUE, node |-> NilMap]

\* key[:1] == "!" && key[len(key)-1:] == "!"
IsHashKey(key) == Head(key).k = "hash" /\ Last(key).k = "hash"

Outcome(st, node, path, hidden) ==
  [st |-> st, node |-> node, path |-> path, hidden |-> hidden]

\* the tree handed back as it came
removeHashes_NoOp(tree, path) == Outcome("ok", tree, <<>>, <<>>)

\* removeHashes: "ok" with the resolved node, "conflict" with the path and the
\* hidden key of the error message, or "panic" (key[:1] of an empty key)
RECURSIVE removeHashes(_, _)
RECURSIVE ResolveKeys(_, _, _, _, _)
ResolveKeys(ents, path, values, trees, results) ==
  IF ents = <<>>
  THEN IF Len(results) > 0
       THEN LET hidden == OMKeys(values) \o OMKeys(trees)
            IN IF Len(hidden) > 0
               THEN Outcome("conflict", NilMap, path, hidden[1])
               ELSE Outcome("ok", Slice(results), <<>>, <<>>)
       ELSE Outcome("ok", Map(values \o trees), <<>>, <<>>)
  ELSE LET key == Head(ents).k
           value == Head(ents).n
       IN IF value.tag = "map"
          THEN IF key = <<>> THEN Outcome("panic", NilMap, path, <<>>)
               ELSE IF IsHashKey(key)
               THEN LET r == removeHashes(value, path \o <<ARR>>)
                    IN IF r.st # "ok" THEN r
                       ELSE ResolveKeys(Tail(ents), path, values, trees,
                                        Append(results, Ent(<<>>, r.node)))
               ELSE LET r == removeHashes(value, path \o <<DOT>> \o key)
                    IN IF r.st # "ok" THEN r
                       ELSE ResolveKeys(Tail(ents), path, values,
                                        OMSet(trees, key, r.node), results)
          ELSE ResolveKeys(Tail(ents), path, OMSet(values, key, value), trees, results)

removeHashes(tree, path) == ResolveKeys(tree.ch, path, <<>>, <<>>, <<>>)

\* the object fast path of PathQuery: the nested object of one record
RECURSIVE ObjectInsert(_, _, _)
ObjectInsert(current, parts, value) ==
  IF Len(parts) = 1 THEN OMSet(current, parts[1], value)
  ELSE LET part == Head(parts)
           c1 == IF OMHas(current, part) THEN current
                 ELSE OMSet(current, part, Map(<<>>))
           next == OMGet(c1, part)
           nextMap == IF next.tag = "map" THEN next ELSE Map(<<>>)
       IN OMSet(c1, part, Map(ObjectInsert(nextMap.ch, Tail(parts), value)))

RECURSIVE ObjectOf(_, _)
ObjectOf(record, result) ==
  IF record = <<>> THEN result
  ELSE LET k0 == Head(record).k
           key == IF HasPrefix(k0, <<DOT>>) THEN Tail(k0) ELSE k0
       IN ObjectOf(Tail(record), ObjectInsert(result, Split(key, DOT), Head(record).n))

isObjectResult(paths) ==
  \A i \in 1..Len(paths) :
    /\ ~Contains(paths[i], ARR)
    /\ HasPrefix(paths[i], <<DOLLAR, DOT>>)
    /\ ~HasPrefix(paths[i], <<DOLLAR, ARR, DOT>>)
    /\ ~HasPrefix(paths[i], <<DOLLAR, ARR>>)

hasArrayMarkers(paths) == \E i \in 1..Len(paths) : Contains(paths[i], ARR)

\* group -> fingerprint -> merge -> resolve
FullPipeline(records) ==
  LET groups == groupBySeparator(records, ARR)
      hashes == addHashes(groups)
      tree == combineIntoTree(hashes, DOT)
  IN IF ~tree.ok THEN Outcome("panic", NilMap, <<>>, <<>>)
     ELSE IF tree.node.tag = "nil" THEN Outcome("niltree", NilMap, <<>>, <<>>)
     ELSE removeHashes(tree.node, <<DOLLAR>>)

\* what PathQuery returns once the rows are collected
Reconstruct(paths, records) ==
  IF isObjectResult(paths) /\ Len(records) > 0
  THEN Outcome("ok", Map(ObjectOf(records[1], <<>>)), <<>>, <<>>)
  ELSE IF ~hasArrayMarkers(paths)
  THEN Outcome("ok", Slice([i \in 1..Len(records) |-> Ent(<<>>, Map(records[i]))]),
               <<>>, <<>>)
  ELSE FullPipeline(records)

\* ---------------------------------------------------------------- query analysis
\* A query text is given by its parts: the items of the FROM list, the JOIN
\* clauses (one per line), the "-- PATH" comments and the items of the SELECT
\* list.  Identifiers and output column names contain no ".".
EmptyMap == [a \in {} |-> ""]
MapGet(m, k, default) == IF k \in DOMAIN m THEN m[k] ELSE default
MapPut(m, k, v) == (k :> v) @@ m

\* hints[alias] = path for every match, a later match overwrites
RECURSIVE extractPathHints(_, _)
extractPathHints(comments, hints) ==
  IF comments = <<>> THEN hints
  ELSE extractPathHints(Tail(comments),
                        MapPut(hints, Head(comments).alias, Head(comments).path))

FromKeywords ==
  {"WHERE", "LEFT", "RIGHT", "INNER", "OUTER", "JOIN", "ORDER", "GROUP", "LIMIT", "HAVING"}

\* analysis.Tables[alias] = tableName for every item of the FROM list
RECURSIVE extractFromClause(_, _)
extractFromClause(items, tables) ==
  IF items = <<>> THEN tables
  ELSE LET tableName == Head(items).table
           alias == IF Head(items).alias # "" THEN Head(items).alias ELSE tableName
       IN extractFromClause(Tail(items),
            IF alias \in FromKeywords THEN tables ELSE MapPut(tables, alias, tableName))

\* the (\w+)\.(\w+)\s*=\s*(\w+)\.(\w+) matches of an ON condition: a term with
\* an unqualified side does not match
parseJoinCondition(condition) ==
  LET Matches(t) == t.la # "" /\ t.ra # ""
      terms == SelectSeq(condition, Matches)
  IN [i \in 1..Len(terms) |->
        [LeftAlias |-> terms[i].la, LeftColumn |-> terms[i].lc,
         RightAlias |-> terms[i].ra, RightColumn |-> terms[i].rc]]

JoinKinds == {"LEFT", "RIGHT", "INNER", "OUTER", "CROSS"}

\* the optional group of the JOIN pattern takes the one keyword that stands
\* right before JOIN
JoinTypeOf(kind) ==
  IF kind # <<>> /\ Last(kind) \in JoinKinds THEN Last(kind) ELSE "INNER"

\* the analyses extractJoins can leave: "for a, t := range analysis.Tables"
\* starts at any entry of the map
RECURSIVE extractJoins(_, _)
extractJoins(clauses, analysis) ==
  IF clauses = <<>> THEN {analysis}
  ELSE LET m == Head(clauses)
           joinType == JoinTypeOf(m.kind)
           tableName == m.table
           alias == IF m.alias # "" THEN m.alias ELSE tableName
           tables == MapPut(analysis.Tables, alias, tableName)
           onColumns == parseJoinCondition(m.on)
           others == DOMAIN tables \ {alias}
           previous == IF others = {} THEN {""} ELSE others
           lefts == IF Len(onColumns) > 0
                    THEN IF onColumns[1].RightAlias = alias
                         THEN {onColumns[1].LeftAlias}
                         ELSE IF onColumns[1].LeftAlias = alias
                         THEN {onColumns[1].RightAlias}
                         ELSE previous
                    ELSE previous
           JoinInfo(leftAlias) ==
             [LeftAlias |-> leftAlias,
              LeftTable |-> MapGet(tables, leftAlias, ""),
              RightAlias |-> alias,
              RightTable |-> tableName,
              JoinType |-> joinType,
              OnColumns |-> onColumns]
       IN UNION { extractJoins(Tail(clauses),
                    [analysis EXCEPT !.Tables = tables,
                                     !.Joins = Append(@, JoinInfo(l))])
                  : l \in lefts }

\* strings.Split(tableList, ",") and the split at whitespace, for one item of
\* the FROM list: every comma of the item ends a table spec, the commas
\* between parentheses included
TableSpecs(item) ==
  IF item.args = <<>>
  THEN <<[table |-> item.table, alias |-> item.alias]>>
  ELSE [i \in 1..Len(item.args) |->
          [table |-> (IF i = 1 THEN item.table \o "(" ELSE "")
                       \o item.args[i]
                       \o (IF i = Len(item.args) THEN ")" ELSE ""),
           alias |-> IF i = Len(item.args) THEN item.alias ELSE ""]]

RECURSIVE SplitTableList(_)
SplitTableList(items) ==
  IF items = <<>> THEN <<>>
  ELSE TableSpecs(Head(items)) \o SplitTableList(Tail(items))

\* re.FindAllStringSubmatch in extractJoins: the condition group (.+) runs
\* to the end of the line, so a match takes the JOIN clauses that follow on
\* its line into its condition and the search resumes on the next line
RECURSIVE JoinMatches(_)
JoinMatches(clauses) ==
  IF clauses = <<>> THEN <<>>
  ELSE LET before == JoinMatches(SubSeq(clauses, 1, Len(clauses) - 1))
           clause == clauses[Len(clauses)]
       IN IF clause.sameLine /\ before # <<>>
          THEN [before EXCEPT ![Len(before)].on = @ \o clause.on]
          ELSE Append(before, clause)

AnalyzeQuery(sql) ==
  extractJoins(JoinMatches(sql.joins),
    [Tables |-> extractFromClause(SplitTableList(sql.from), EmptyMap),
     Joins |-> <<>>,
     PathHints |-> extractPathHints(sql.hints, EmptyMap)])

\* columnMapping of PathQuery: "alias.col" when the SELECT item is alias.column
\* (no parenthesis) and the alias is a table of the analysis, else the column
ColumnMapping(select, analysis) ==
  [i \in 1..Len(select) |->
     IF select[i].qual # "" /\ select[i].qual \in DOMAIN analysis.Tables
     THEN [qual |-> select[i].qual, name |-> select[i].name]
     ELSE [qual |-> "", name |-> select[i].name]]

\* ---------------------------------------------------------------- schema metadata
\* the column lists GetTableMetadata reads: the schema the tests create
TableColumns(tableName) ==
  IF tableName = "categories" THEN {"id", "name"}
  ELSE IF tableName = "posts" THEN {"id", "category_id", "content"}
  ELSE IF tableName = "comments" THEN {"id", "post_id", "message"}
  ELSE {}

FK(fromTable, fromColumn, toTable, toColumn) ==
  [FromTable |-> fromTable, FromColumn |-> fromColumn,
   ToTable |-> toTable, ToColumn |-> toColumn]

\* ---------------------------------------------------------------- path inference
\* what one (join column, foreign key) step of the loops decides
FKDecision(join, jc, fk) ==
  IF /\ fk.FromTable = join.RightTable /\ fk.ToTable = join.LeftTable
     /\ \/ (jc.RightAlias = join.RightAlias /\ jc.RightColumn = fk.FromColumn)
        \/ (jc.LeftAlias = join.RightAlias /\ jc.LeftColumn = fk.FromColumn)
  THEN "array"
  ELSE IF /\ fk.FromTable = join.LeftTable /\ fk.ToTable = join.RightTable
          /\ \/ (jc.LeftAlias = join.LeftAlias /\ jc.LeftColumn = fk.FromColumn)
             \/ (jc.RightAlias = join.LeftAlias /\ jc.RightColumn = fk.FromColumn)
  THEN "object"
  ELSE "none"

RECURSIVE ScanFKs(_, _, _)
ScanFKs(join, jc, fks) ==
  IF fks = <<>> THEN "none"
  ELSE LET d == FKDecision(join, jc, Head(fks))
       IN IF d # "none" THEN d ELSE ScanFKs(join, jc, Tail(fks))

RECURSIVE ScanOnColumns(_, _, _)
ScanOnColumns(join, onColumns, fks) ==
  IF onColumns = <<>> THEN "none"
  ELSE LET d == ScanFKs(join, Head(onColumns), fks)
       IN IF d # "none" THEN d ELSE ScanOnColumns(join, Tail(onColumns), fks)

\* the join kind looked at before the foreign keys
isOneToManyJoin_KindFirst(join, fks) ==
  IF join.JoinType = "LEFT" \/ join.JoinType = "LEFT OUTER" THEN TRUE
  ELSE ScanOnColumns(join, join.OnColumns, fks) = "array"

isOneToManyJoin(join, fks) ==
  IF Len(join.OnColumns) = 0
  THEN join.JoinType = "LEFT" \/ join.JoinType = "LEFT OUTER"
  ELSE LET d == ScanOnColumns(join, join.OnColumns, fks)
       IN IF d = "array" THEN TRUE
          ELSE IF d = "object" THEN FALSE
          ELSE join.JoinType = "LEFT" \/ join.JoinType = "LEFT OUTER"

joinedAliases(analysis) ==
  {analysis.Joins[i].RightAlias : i \in 1..Len(analysis.Joins)}

\* the aliases "for alias := range analysis.Tables" can stop at: any table that
\* is no join's right side, "" when there is none
RootChoices(analysis) ==
  LET free == DOMAIN analysis.Tables \ joinedAliases(analysis)
  IN IF free = {} THEN {""} ELSE free

\* cardinality[alias], false for a missing key
CardOf(cardinality, alias) == MapGet(cardinality, alias, FALSE)

\* a hinted root taken for an array whatever its hint says
RootFlag_AlwaysArray(hints, rootAlias, joins) == TRUE

\* the flag of the root alias under its hint
RootFlag(hints, rootAlias, joins) ==
  IF rootAlias \in DOMAIN hints
  THEN IF HasSuffix(hints[rootAlias], <<ARR>>) THEN TRUE
       ELSE IF hints[rootAlias] = <<DOLLAR>> THEN FALSE
       ELSE Len(joins) > 0
  ELSE TRUE

RECURSIVE JoinFlags(_, _, _)
JoinFlags(joins, fks, cardinality) ==
  IF joins = <<>> THEN cardinality
  ELSE JoinFlags(Tail(joins), fks,
         MapPut(cardinality, Head(joins).RightAlias, isOneToManyJoin(Head(joins), fks)))

\* buildCardinalityMap with the root the first loop stopped at: the map, and
\* the analysis as the call leaves it
buildCardinalityMap(analysis, fks, root0) ==
  LET hasRootHint == "$" \in DOMAIN analysis.PathHints
      synthetic == hasRootHint /\ root0 = ""
      rootAlias == IF synthetic THEN "$" ELSE root0
      tables == IF synthetic THEN MapPut(analysis.Tables, "$", "$") ELSE analysis.Tables
      hints == IF hasRootHint
               THEN MapPut(analysis.PathHints, rootAlias, analysis.PathHints["$"])
               ELSE analysis.PathHints
      c0 == IF rootAlias # ""
            THEN MapPut(EmptyMap, rootAlias, RootFlag(hints, rootAlias, analysis.Joins))
            ELSE EmptyMap
      c1 == JoinFlags(analysis.Joins, fks, c0)
      c2 == [a \in DOMAIN c1 \cup DOMAIN tables |-> IF a \in DOMAIN c1 THEN c1[a] ELSE TRUE]
  IN [cardinality |-> c2,
      analysis |-> [analysis EXCEPT !.Tables = tables, !.PathHints = hints]]

\* a joined alias nested under the root alias
buildPathRecursive_Nested(targetAlias, rootAlias, cardinality) ==
  IF targetAlias = rootAlias
  THEN <<DOLLAR, ARR, DOT, Id(targetAlias)>>
  ELSE <<DOLLAR, ARR, DOT, Id(rootAlias), DOT, Id(targetAlias)>>
       \o (IF CardOf(cardinality, targetAlias) THEN <<ARR>> ELSE <<>>)

\* buildPathRecursive with the root its own loop stopped at
buildPathRecursive(targetAlias, rootAlias, cardinality) ==
  IF targetAlias = rootAlias
  THEN IF CardOf(cardinality, targetAlias)
       THEN <<DOLLAR, ARR, DOT, Id(targetAlias)>>
       ELSE <<DOLLAR, DOT, Id(targetAlias)>>
  ELSE IF CardOf(cardinality, rootAlias)
       THEN IF CardOf(cardinality, targetAlias)
            THEN <<DOLLAR, ARR, DOT, Id(targetAlias), ARR>>
            ELSE <<DOLLAR, ARR, DOT, Id(targetAlias)>>
       ELSE IF CardOf(cardinality, targetAlias)
            THEN <<DOLLAR, DOT, Id(targetAlias), ARR>>
            ELSE <<DOLLAR, DOT, Id(targetAlias)>>

buildPathToTable(targetAlias, rootAlias, cardinality) ==
  buildPathRecursive(targetAlias, rootAlias, cardinality)

\* hint + "[]." + col when the alias is an array and the hint has no "[]" at
\* its end, else hint + "." + col
HintedPath(hintPath, isArray, colName) ==
  IF isArray /\ ~HasSuffix(hintPath, <<ARR>>)
  THEN hintPath \o <<ARR, DOT, Id(colName)>>
  ELSE hintPath \o <<DOT, Id(colName)>>

\* the root marker added without a look at the end of the hint
RootHintPath_DoubleMarker(alias, colName, rootAlias, rootHint, cardinality) ==
  rootHint
    \o (IF CardOf(cardinality, rootAlias) THEN <<ARR>> ELSE <<>>)
    \o (IF alias = rootAlias THEN <<>> ELSE <<DOT, Id(alias)>>)
    \o (IF alias # rootAlias /\ CardOf(cardinality, alias) THEN <<ARR>> ELSE <<>>)
    \o <<DOT, Id(colName)>>

\* the path under the hint of the root alias
RootHintPath(alias, colName, rootAlias, rootHint, cardinality) ==
  IF alias = rootAlias
  THEN HintedPath(rootHint, CardOf(cardinality, alias), colName)
  ELSE IF CardOf(cardinality, rootAlias)
       THEN IF CardOf(cardinality, alias)
            THEN IF ~HasSuffix(rootHint, <<ARR>>)
                 THEN rootHint \o <<ARR, DOT, Id(alias), ARR, DOT, Id(colName)>>
                 ELSE rootHint \o <<DOT, Id(alias), ARR, DOT, Id(colName)>>
            ELSE IF ~HasSuffix(rootHint, <<ARR>>)
                 THEN rootHint \o <<ARR, DOT, Id(alias), DOT, Id(colName)>>
                 ELSE rootHint \o <<DOT, Id(alias), DOT, Id(colName)>>
       ELSE IF CardOf(cardinality, alias)
            THEN rootHint \o <<DOT, Id(alias), ARR, DOT, Id(colName)>>
            ELSE rootHint \o <<DOT, Id(alias), DOT, Id(colName)>>

\* inferColumnPath once the alias is known and has no hint of its own; the
\* root is what findRootAlias, then buildPathRecursive, stop at
UnhintedPaths(alias, colName, analysis, cardinality) ==
  IF Len(analysis.Joins) = 0
  THEN {IF CardOf(cardinality, alias)
        THEN <<DOLLAR, ARR, DOT, Id(colName)>>
        ELSE <<DOLLAR, DOT, Id(colName)>>}
  ELSE UNION {
         IF rootAlias \in DOMAIN analysis.PathHints
         THEN {RootHintPath(alias, colName, rootAlias,
                            analysis.PathHints[rootAlias], cardinality)}
         ELSE {buildPathToTable(alias, r, cardinality) \o <<DOT, Id(colName)>>
               : r \in RootChoices(analysis)}
         : rootAlias \in RootChoices(analysis)}

\* the aliases guessAliasForColumn can return
guessAliasForColumn(column, analysis) ==
  LET aliases == DOMAIN analysis.Tables
      found == {a \in aliases : column \in TableColumns(analysis.Tables[a])}
  IN IF Cardinality(aliases) = 1 THEN aliases
     ELSE IF found # {} THEN found
     ELSE IF aliases # {} THEN aliases
     ELSE {""}

AliasPaths(alias, colName, analysis, cardinality) ==
  IF alias \in DOMAIN analysis.PathHints
  THEN {HintedPath(analysis.PathHints[alias], CardOf(cardinality, alias), colName)}
  ELSE UnhintedPaths(alias, colName, analysis, cardinality)

\* the paths inferColumnPath can return for a column
inferColumnPath(column, analysis, cardinality) ==
  IF column.qual # ""
  THEN AliasPaths(column.qual, column.name, analysis, cardinality)
  ELSE UNION {
         IF alias = ""
         THEN {IF "$" \in DOMAIN analysis.PathHints
               THEN analysis.PathHints["$"] \o <<DOT, Id(column.name)>>
               ELSE <<DOLLAR, DOT, Id(column.name)>>}
         ELSE AliasPaths(alias, column.name, analysis, cardinality)
         : alias \in guessAliasForColumn(column.name, analysis)}

\* the path lists PathQuery can end up with: paths[col] is set once per column
\* name, so equal columns share their path
RECURSIVE PathLists(_, _, _)
PathLists(columns, analysis, cardinality) ==
  IF columns = <<>> THEN {<<>>}
  ELSE {Append(ps, p) :
          ps \in PathLists(Front(columns), analysis, cardinality),
          p \in inferColumnPath(Last(columns), analysis, cardinality)}

InferPaths(analysis, columns, cardinality) ==
  {ps \in PathLists(columns, analysis, cardinality) :
     \A i, j \in 1..Len(columns) : columns[i] = columns[j] => ps[i] = ps[j]}

\* the fallback of InferPathsWithFallback: "$[]." + col for every entry col of
\* the column mapping, "alias.column" entries included
FallbackPaths(columns) ==
  [i \in 1..Len(columns) |->
     IF columns[i].qual # ""
     THEN <<DOLLAR, ARR, DOT, Id(columns[i].qual), DOT, Id(columns[i].name)>>
     ELSE <<DOLLAR, ARR, DOT, Id(columns[i].name)>>]

\* ---------------------------------------------------------------- inputs
T(table, alias) == [table |-> table, alias |-> alias, args |-> <<>>]
\* the FROM item "fn(arg, arg, ...) alias"
Call(fn, args, alias) == [table |-> fn, alias |-> alias, args |-> args]
J(kind, table, alias, on) ==
  [kind |-> kind, table |-> table, alias |-> alias, on |-> on, sameLine |-> FALSE]
\* the clause written on the line of the clause before it
OnSameLine(j) == [j EXCEPT !.sameLine = TRUE]
Eq(la, lc, ra, rc) == [la |-> la, lc |-> lc, ra |-> ra, rc |-> rc]
H(alias, path) == [alias |-> alias, path |-> path]
S(qual, name) == [qual |-> qual, name |-> name]
Query(from, joins, hints, select) ==
  [from |-> from, joins |-> joins, hints |-> hints, select |-> select]

\* the aliases a query declares
DeclaredAliases(q) ==
  {IF q.from[i].alias # "" THEN q.from[i].alias ELSE q.from[i].table
     : i \in 1..Len(q.from)}
  \cup {IF q.joins[i].alias # "" THEN q.joins[i].alias ELSE q.joins[i].table
     : i \in 1..Len(q.joins)}

\* the aliases of a query in their order, FROM list first
AliasList(q) ==
  [i \in 1..(Len(q.from) + Len(q.joins)) |->
     IF i <= Len(q.from)
     THEN (IF q.from[i].alias # "" THEN q.from[i].alias ELSE q.from[i].table)
     ELSE (IF q.joins[i - Len(q.from)].alias # ""
           THEN q.joins[i - Len(q.from)].alias
           ELSE q.joins[i - Len(q.from)].table)]

\* a query the database accepts: no alias is declared twice, a JOIN follows a
\* FROM item, qualifiers of the SELECT list and of the ON conditions are
\* declared aliases, and something is selected
Accepted(q) ==
  /\ Len(q.select) > 0
  /\ \A i, j \in 1..Len(AliasList(q)) : AliasList(q)[i] = AliasList(q)[j] => i = j
  /\ Len(q.joins) > 0 => Len(q.from) > 0
  /\ \A i \in 1..Len(q.select) : q.select[i].qual \in DeclaredAliases(q) \cup {""}
  /\ \A i \in 1..Len(q.joins) : \A k \in 1..Len(q.joins[i].on) :
        /\ q.joins[i].on[k].la \in DeclaredAliases(q) \cup {""}
        /\ q.joins[i].on[k].ra \in DeclaredAliases(q) \cup {""}

QuerySet(froms, joinss, hintss, selects) ==
  {q \in {Query(f, j, h, s) : f \in froms, j \in joinss, h \in hintss, s \in selects}
     : Accepted(q)}

\* the foreign keys of the schema the tests create
SchemaFKs ==
  <<FK("comments", "post_id", "posts", "id"),
    FK("posts", "category_id", "categories", "id")>>

JoinComments(kind) ==
  J(kind, "comments", "c", <<Eq("c", "post_id", "p", "id")>>)
JoinCategories(kind) ==
  J(kind, "categories", "cat", <<Eq("p", "category_id", "cat", "id")>>)

\* the queries whose rows are followed into the tree
Queries ==
  QuerySet(
    {<<T("posts", "p")>>},
    {<<>>, <<JoinComments(<<"INNER">>)>>, <<JoinCategories(<<"LEFT">>)>>},
    {<<>>,
     <<H("p", <<DOLLAR>>)>>,
     <<H("p", <<DOLLAR, DOT, Id("x")>>)>>,
     <<H("p", <<DOLLAR, DOT, Id("x"), ARR>>)>>},
    {<<S("p", "id"), S("p", "content")>>,
     <<S("", "n")>>,
     <<S("p", "id"), S("c", "id")>>,
     <<S("p", "c"), S("c", "id")>>,
     <<S("c", "id"), S("p", "c")>>,
     <<S("c", "id")>>,
     <<S("p", "id"), S("cat", "id")>>})
  \cup QuerySet(
    {<<T("posts", "p")>>},
    {<<JoinComments(<<"INNER">>)>>},
    {<<H("p", <<DOLLAR, DOT, Id("x")>>)>>},
    {<<S("p", "id"), S("p", "content"), S("c", "id")>>})

FKLists == {SchemaFKs}

\* the queries whose analysis and path inference are followed
JoinTexts == {<<>>, <<"LEFT">>, <<"INNER">>, <<"RIGHT">>, <<"LEFT", "OUTER">>}

InferQueries ==
  QuerySet(
    {<<>>, <<T("posts", "p")>>, <<T("posts", "p"), T("comments", "c")>>},
    {<<>>}
      \cup {<<JoinComments(k)>> : k \in JoinTexts}
      \cup {<<JoinCategories(k)>> : k \in JoinTexts}
      \cup {<<J(k, "comments", "c", <<Eq("p", "id", "c", "post_id")>>)>>
              : k \in {<<"LEFT">>, <<"INNER">>}}
      \cup {<<J(k, "comments", "c", <<Eq("", "post_id", "p", "id")>>)>>
              : k \in {<<"LEFT">>, <<"INNER">>}}
      \cup {<<JoinComments(<<"LEFT">>), JoinCategories(k)>>
              : k \in {<<"LEFT">>, <<"INNER">>}}
      \cup {<<JoinComments(k),
              J(<<"LEFT">>, "categories", "cat", <<Eq("cat", "id", "c", "id")>>)>>
              : k \in {<<"LEFT">>, <<"INNER">>}},
    {<<>>,
     <<H("p", <<DOLLAR>>)>>,
     <<H("p", <<DOLLAR, DOT, Id("x")>>)>>,
     <<H("p", <<DOLLAR, DOT, Id("x"), ARR>>)>>,
     <<H("p", <<DOLLAR, ARR>>)>>,
     <<H("$", <<DOLLAR, DOT, Id("x")>>)>>,
     <<H("c", <<DOLLAR, DOT, Id("y")>>)>>,
     <<H("cat", <<DOLLAR, DOT, Id("y"), ARR>>)>>},
    {<<S("p", "id")>>,
     <<S("", "n")>>,
     <<S("", "id")>>,
     <<S("c", "id")>>,
     <<S("p", "id"), S("c", "id")>>,
     <<S("p", "id"), S("cat", "name")>>,
     <<S("p", "id"), S("c", "id"), S("cat", "id")>>})
  \cup QuerySet(
    {<<T("posts", ""), T("comments", "")>>},
    {<<>>},
    {<<H("posts", <<DOLLAR, DOT, Id("posts")>>)>>},
    {<<S("posts", "id"), S("comments", "id")>>,
     <<S("posts", "id"), S("posts", "content"), S("comments", "id"),
       S("comments", "message")>>})

InferFKLists ==
  {<<>>,
   SchemaFKs,
   <<FK("comments", "post_id", "posts", "id"), FK("posts", "id", "comments", "post_id")>>,
   <<FK("posts", "id", "comments", "post_id"), FK("comments", "post_id", "posts", "id")>>}

\* the values of a cell
Values == {"1", "2"}
RowsOf(n) == [1..n -> Values]

\* ---------------------------------------------------------------- PathQuery
VARIABLES
  pc,             \* where the call stands
  query,          \* the query text, by its parts
  allFKs,         \* what GetAllForeignKeys returns
  analysis,       \* the QueryAnalysis
  columnMapping,  \* the column identifiers handed to the inference
  cardinality,    \* the map of buildCardinalityMap
  paths,          \* the path of every output column
  rows,           \* the rows scanned so far
  records,        \* the records getAllRecords has built
  iterErr,        \* rows.Next() ended the loop on an error of the executor
  result,         \* what the call returned
  tree,           \* the merged tree handed to removeHashes
  metadataErr,    \* GetAllForeignKeys returns an error
  fkCache,        \* r.fkCache: no element for nil, else the data it holds
  tableCache,     \* r.cache[tableName] of one table, likewise
  epoch,          \* the number of InvalidateCache calls that have completed
  lookup,         \* the lookups in flight, by goroutine
  metadataReader, \* db.metadataReader: 0 for nil, else the reader it points to
  created,        \* the number of readers NewMetadataReader has returned
  call,           \* the PathQuery calls in flight on the handle, by goroutine
  cell,           \* a raw []byte payload of a cell, as characters
  value           \* what convertBytes returns for it

cacheVars == <<fkCache, tableCache, epoch, lookup>>
handleVars == <<metadataReader, created, call>>
cellVars == <<cell, value>>

\* the goroutines that look metadata up
Readers == {"r1", "r2"}

Idle == [at |-> "idle", op |-> "", start |-> 0, cols |-> 0, fks |-> 0,
         returned |-> {}]

\* NewMetadataReader: empty caches
CacheInit ==
  /\ fkCache = {}
  /\ tableCache = {}
  /\ epoch = 0
  /\ lookup = [r \in Readers |-> Idle]

\* the goroutines that call PathQuery on one handle
Callers == {"q1", "q2", "q3"}

NoCall == [at |-> "idle", uses |-> 0]

\* a handle as Open and Connect return it: no metadata reader yet
HandleInit ==
  /\ metadataReader = 0
  /\ created = 0
  /\ call = [c \in Callers |-> NoCall]

NoValue == [type |-> "none", text |-> <<>>]

CellInit ==
  /\ cell = <<>>
  /\ value = NoValue

vars == <<pc, query, allFKs, analysis, columnMapping, cardinality, paths, rows,
          records, iterErr, result, tree, metadataErr, fkCache, tableCache,
          epoch, lookup, metadataReader, created, call, cell, value>>

NoAnalysis == [Tables |-> EmptyMap, Joins |-> <<>>, PathHints |-> EmptyMap]
NoResult == Outcome("none", NilMap, <<>>, <<>>)

InitWith(queries, fkLists) ==
  /\ pc = "start"
  /\ query \in queries
  /\ allFKs \in fkLists
  /\ analysis = NoAnalysis
  /\ columnMapping = <<>>
  /\ cardinality = EmptyMap
  /\ paths = <<>>
  /\ rows = <<>>
  /\ records = <<>>
  /\ iterErr = FALSE
  /\ result = NoResult
  /\ tree = NilMap
  /\ metadataErr = FALSE
  /\ CacheInit
  /\ HandleInit
  /\ CellInit

Init == InitWith(Queries, FKLists)

\* analysis, err := AnalyzeQuery(query)
Analyze ==
  /\ pc = "start"
  /\ analysis' \in AnalyzeQuery(query)
  /\ pc' = "analyzed"
  /\ UNCHANGED <<cacheVars, handleVars, cellVars, tree, metadataErr, query, allFKs, columnMapping, cardinality, paths, rows, records,
                 iterErr, result>>

\* rows, err := db.NamedQuery(query, arg) fails: return nil, err
NamedQueryFails ==
  /\ pc = "analyzed"
  /\ result' = Outcome("queryerr", NilMap, <<>>, <<>>)
  /\ pc' = "done"
  /\ UNCHANGED <<cacheVars, handleVars, cellVars, tree, metadataErr, query, allFKs, analysis, columnMapping, cardinality, paths, rows,
                 records, iterErr>>

NamedQuery ==
  /\ pc = "analyzed"
  /\ pc' = "queried"
  /\ UNCHANGED <<cacheVars, handleVars, cellVars, tree, metadataErr, query, allFKs, analysis, columnMapping, cardinality, paths, rows,
                 records, iterErr, result>>

\* the column mapping and engine.InferPathsWithFallback(analysis, columnMapping)
\* for output columns with plain names: none starts with "$", so
\* hasExplicitPaths stays false and getPaths is not called
Infer ==
  /\ pc = "queried"
  /\ IF metadataErr
     THEN /\ columnMapping' = ColumnMapping(query.select, analysis)
          /\ paths' = FallbackPaths(ColumnMapping(query.select, analysis))
          /\ UNCHANGED <<cardinality, analysis>>
     ELSE \E root0 \in RootChoices(analysis) :
            LET built == buildCardinalityMap(analysis, allFKs, root0)
                mapping == ColumnMapping(query.select, analysis)
            IN /\ paths' \in InferPaths(built.analysis, mapping, built.cardinality)
               /\ columnMapping' = mapping
               /\ cardinality' = built.cardinality
               /\ analysis' = built.analysis
  /\ pc' = "rows"
  /\ UNCHANGED <<cacheVars, handleVars, cellVars, tree, metadataErr, query, allFKs, rows, records, iterErr, result>>

\* rows.Next() is true and SliceScan succeeds: one more record
RowsNext ==
  /\ pc = "rows"
  /\ Len(rows) < MaxRows
  /\ \E row \in RowsOf(Len(paths)) :
       /\ rows' = Append(rows, row)
       /\ records' = Append(records, RecordOf(row, paths, <<>>))
  /\ UNCHANGED <<cacheVars, handleVars, cellVars, tree, metadataErr, pc, query, allFKs, analysis, columnMapping, cardinality, paths,
                 iterErr, result>>

\* rows.Next() is true and SliceScan fails: return records, err
SliceScanFails ==
  /\ pc = "rows"
  /\ result' = Outcome("queryerr", NilMap, <<>>, <<>>)
  /\ pc' = "done"
  /\ UNCHANGED <<cacheVars, handleVars, cellVars, tree, metadataErr, query, allFKs, analysis, columnMapping, cardinality, paths, rows,
                 records, iterErr>>

\* rows.Next() is false after the last row of the result set
RowsExhausted ==
  /\ pc = "rows"
  /\ pc' = "collected"
  /\ UNCHANGED <<cacheVars, handleVars, cellVars, tree, metadataErr, query, allFKs, analysis, columnMapping, cardinality, paths, rows,
                 records, iterErr, result>>

\* rows.Next() is false because the executor failed on the next row: the error
\* is left in rows.Err(), which getAllRecords does not read
RowsNextFails ==
  /\ pc = "rows"
  /\ iterErr' = TRUE
  /\ pc' = "collected"
  /\ UNCHANGED <<cacheVars, handleVars, cellVars, tree, metadataErr, query, allFKs, analysis, columnMapping, cardinality, paths, rows,
                 records, result>>

\* the shortcuts and the pipeline of PathQuery
Finish ==
  /\ pc = "collected"
  /\ result' = Reconstruct(paths, records)
  /\ pc' = "done"
  /\ UNCHANGED <<cacheVars, handleVars, cellVars, tree, metadataErr, query, allFKs, analysis, columnMapping, cardinality, paths, rows,
                 records, iterErr>>

Next ==
  \/ Analyze
  \/ NamedQueryFails
  \/ NamedQuery
  \/ Infer
  \/ RowsNext
  \/ SliceScanFails
  \/ RowsExhausted
  \/ RowsNextFails
  \/ Finish

Spec == Init /\ [][Next]_vars

\* the call up to the inferred paths, over the wider set of queries
InitInfer == InitWith(InferQueries, InferFKLists)

NextInfer ==
  \/ Analyze
  \/ NamedQueryFails
  \/ NamedQuery
  \/ Infer

SpecInfer == InitInfer /\ [][NextInfer]_vars

\* ---------------------------------------------------------------- reading trees and rows
Key(name) == <<Id(name)>>

\* the flat mapping of one row: its cells under the output column names
RECURSIVE FlatObject(_, _, _)
FlatObject(select, row, acc) ==
  IF select = <<>> THEN acc
  ELSE FlatObject(Tail(select), Tail(row),
                  OMSet(acc, Key(Head(select).name), Leaf(Head(row))))

\* the first occurrences of a sequence, in order
RECURSIVE Dedup(_)
Dedup(seq) ==
  IF seq = <<>> THEN <<>>
  ELSE LET front == Dedup(Front(seq))
       IN IF \E i \in 1..Len(front) : front[i] = Last(seq)
          THEN front ELSE Append(front, Last(seq))

\* the scalar leaves of a node outside of any slice, in key order
RECURSIVE LeavesOf(_)
RECURSIVE LeavesOfEnts(_)
LeavesOfEnts(ents) ==
  IF ents = <<>> THEN <<>> ELSE LeavesOf(Head(ents).n) \o LeavesOfEnts(Tail(ents))
LeavesOf(node) ==
  IF node.tag = "leaf" THEN <<node.v>>
  ELSE IF node.tag = "map" THEN LeavesOfEnts(node.ch)
  ELSE <<>>

\* the slices of a node that lie in no other slice, in key order
RECURSIVE SlicesOf(_)
RECURSIVE SlicesOfEnts(_)
SlicesOfEnts(ents) ==
  IF ents = <<>> THEN <<>> ELSE SlicesOf(Head(ents).n) \o SlicesOfEnts(Tail(ents))
SlicesOf(node) ==
  IF node.tag = "arr" THEN <<node>>
  ELSE IF node.tag = "map" THEN SlicesOfEnts(node.ch)
  ELSE <<>>

\* the cells of a row at the given column positions
Cells(row, positions) == [k \in 1..Len(positions) |-> row[positions[k]]]

\* the positions of the output columns that were mapped to the alias
RECURSIVE PositionsFrom(_, _, _)
PositionsFrom(mapping, alias, i) ==
  IF i > Len(mapping) THEN <<>>
  ELSE (IF mapping[i].qual = alias THEN <<i>> ELSE <<>>)
       \o PositionsFrom(mapping, alias, i + 1)
PositionsOf(mapping, alias) == PositionsFrom(mapping, alias, 1)

\* the call came back from the reconstruction: the executor reported nothing
Reconstructed == pc = "done" /\ result.st # "queryerr"

\* some output path is asked to hold a scalar or an object and an array: a
\* column path continued by "[]" in another, or a prefix continued by "." in
\* one path and by "[]" in another
ShapeConflict(ps) ==
  \E i, j \in 1..Len(ps) :
    \/ HasPrefix(ps[j], ps[i] \o <<ARR>>)
    \/ \E n \in 1..Len(ps[i]) :
         /\ n < Len(ps[i]) /\ n < Len(ps[j])
         /\ SubSeq(ps[i], 1, n) = SubSeq(ps[j], 1, n)
         /\ ps[i][n + 1] = DOT
         /\ ps[j][n + 1] = ARR

\* a foreign key of fromTable to toTable on a column the predicate uses for
\* fromAlias
RefersTo(fks, fromTable, fromAlias, toTable, on) ==
  \E k \in 1..Len(fks) : \E c \in 1..Len(on) :
    /\ fks[k].FromTable = fromTable
    /\ fks[k].ToTable = toTable
    /\ \/ (on[c].LeftAlias = fromAlias /\ on[c].LeftColumn = fks[k].FromColumn)
       \/ (on[c].RightAlias = fromAlias /\ on[c].RightColumn = fks[k].FromColumn)

\* ---------------------------------------------------------------- C1
\* C1: a query with no joins and no path hints returns a sequence that holds
\* exactly one mapping per row, in row order, each with the row's cells under
\* the output column names, also when two rows are equal in every selected
\* column. Stated for the calls that scanned at least one row and met no
\* failure of the executor.
C1_OneMappingPerRow ==
  ( /\ Reconstructed /\ ~iterErr
    /\ query.joins = <<>> /\ query.hints = <<>>
    /\ rows # <<>> )
  => /\ result.st = "ok"
     /\ result.node =
          Slice([i \in 1..Len(rows) |->
                   Ent(<<>>, Map(FlatObject(query.select, rows[i], <<>>)))])

\* ---------------------------------------------------------------- C2
\* the one join of the query goes to a table that holds a foreign key to the
\* left table on a predicate column, columns of both sides are selected, the
\* root alias is not hinted to be the single object "$", the paths ask for no
\* shape conflict, and the rows were all scanned
C2_Case ==
  /\ Reconstructed /\ ~iterErr
  /\ rows # <<>>
  /\ Len(analysis.Joins) = 1
  /\ RefersTo(allFKs, analysis.Joins[1].RightTable, analysis.Joins[1].RightAlias,
              analysis.Joins[1].LeftTable, analysis.Joins[1].OnColumns)
  /\ PositionsOf(columnMapping, analysis.Joins[1].LeftAlias) # <<>>
  /\ PositionsOf(columnMapping, analysis.Joins[1].RightAlias) # <<>>
  /\ \A i \in 1..Len(query.hints) : query.hints[i].path # <<DOLLAR>>
  /\ ~ShapeConflict(paths)

\* C2: for a join whose right table has a foreign key to the left table on the
\* predicate column, the rows are reconstructed into one element per distinct
\* parent tuple, in the order of first occurrence, and each parent element
\* carries one array with exactly its child tuples in row order (a row that
\* occurs twice counts once); a child tuple that occurs under two parents is
\* under both.
C2_ParentsWithChildren ==
  C2_Case =>
    LET j == analysis.Joins[1]
        pp == PositionsOf(columnMapping, j.LeftAlias)
        cp == PositionsOf(columnMapping, j.RightAlias)
        parents == Dedup([i \in 1..Len(rows) |-> Cells(rows[i], pp)])
        ChildrenOf(parent) ==
          LET Mine(r) == Cells(r, pp) = parent
              mine == SelectSeq(rows, Mine)
          IN Dedup([i \in 1..Len(mine) |-> Cells(mine[i], cp)])
        outer == SlicesOf(result.node)
    IN /\ result.st = "ok"
       /\ Len(outer) = 1
       /\ Len(outer[1].ch) = Len(parents)
       /\ \A n \in 1..Len(parents) :
            LET element == outer[1].ch[n].n
                inner == SlicesOf(element)
            IN /\ element.tag = "map"
               /\ LeavesOf(element) = parents[n]
               /\ Len(inner) = 1
               /\ [m \in 1..Len(inner[1].ch) |-> LeavesOf(inner[1].ch[m].n)]
                    = ChildrenOf(parents[n])

\* two parents, the first with two children, one child tuple under both
C2_Witness ==
  /\ C2_Case
  /\ query.select = <<S("p", "id"), S("c", "id")>>
  /\ rows = << <<"1", "1">>, <<"1", "2">>, <<"2", "1">> >>
  /\ result.st = "ok"
  /\ Len(SlicesOf(result.node)[1].ch) = 2

\* ---------------------------------------------------------------- C3
\* C3: when the output paths ask for a scalar or an object and for an array at
\* the same path, the call returns the shape-conflict error that names the
\* path: no tree in which one shape won, and no crash. Stated for the calls
\* that scanned at least one row and met no failure of the executor.
C3_ConflictReported ==
  ( /\ Reconstructed /\ ~iterErr
    /\ rows # <<>>
    /\ ShapeConflict(paths) )
  => result.st = "conflict"

\* ---------------------------------------------------------------- C4
\* the hints as the query gives them
QueryHints == extractPathHints(query.hints, EmptyMap)

\* the left table of the join has a foreign key to the right table on a
\* predicate column, and no foreign key goes the other way
ManyToOne(j) ==
  /\ RefersTo(allFKs, j.LeftTable, j.LeftAlias, j.RightTable, j.OnColumns)
  /\ ~\E k \in 1..Len(allFKs) :
        allFKs[k].FromTable = j.RightTable /\ allFKs[k].ToTable = j.LeftTable

\* C4: when the left table of a join has a foreign key to the right table on
\* the predicate column and no foreign key goes the other way, the right alias
\* is flagged object for every join kind, LEFT included, and its columns get no
\* array marker after the alias: they lie in a nested mapping (under the hint
\* of the alias when it has one).
C4_ManyToOneIsObject ==
  pc = "rows" =>
    \A n \in 1..Len(analysis.Joins) :
      LET j == analysis.Joins[n]
      IN ManyToOne(j) =>
           /\ cardinality[j.RightAlias] = FALSE
           /\ \A i \in 1..Len(paths) :
                columnMapping[i].qual = j.RightAlias =>
                  IF j.RightAlias \in DOMAIN QueryHints
                  THEN paths[i] = QueryHints[j.RightAlias]
                                    \o <<DOT, Id(columnMapping[i].name)>>
                  ELSE HasSuffix(paths[i],
                         <<DOT, Id(j.RightAlias), DOT, Id(columnMapping[i].name)>>)

\* a LEFT JOIN to the table the root refers to, with one of its columns selected
C4_Witness ==
  /\ pc = "rows"
  /\ Len(analysis.Joins) = 1
  /\ analysis.Joins[1].JoinType = "LEFT"
  /\ ManyToOne(analysis.Joins[1])
  /\ cardinality["cat"] = FALSE
  /\ paths = << <<DOLLAR, ARR, DOT, Id("p"), DOT, Id("id")>>,
                <<DOLLAR, ARR, DOT, Id("cat"), DOT, Id("name")>> >>

\* ---------------------------------------------------------------- C5
\* the aliases of the analysis that are no join's right side
FreeAliases == DOMAIN analysis.Tables \ joinedAliases(analysis)

\* the decision table of the root alias
RootTable(hinted, hint, joins) ==
  IF ~hinted THEN TRUE
  ELSE IF HasSuffix(hint, <<ARR>>) THEN TRUE
  ELSE IF hint = <<DOLLAR>> THEN FALSE
  ELSE Len(joins) > 0

\* C5 as stated: the flag of the root alias (the alias that is no join's right
\* side) follows from its own path hint: a hint that ends in "[]" gives an
\* array, the hint "$" an object, another hint an array with at least one join
\* and an object with none, no hint an array.
C5_RootFlagByOwnHint ==
  (pc = "rows" /\ Cardinality(FreeAliases) = 1) =>
    \A r \in FreeAliases :
      cardinality[r] =
        RootTable(r \in DOMAIN QueryHints,
                  IF r \in DOMAIN QueryHints THEN QueryHints[r] ELSE <<>>,
                  analysis.Joins)

\* C5 amended: the hint the table is read with is the "-- PATH $ ..." hint when
\* the query has one, and the root alias's own hint otherwise.
C5_RootFlagByEffectiveHint ==
  (pc = "rows" /\ Cardinality(FreeAliases) = 1) =>
    \A r \in FreeAliases :
      LET a == IF "$" \in DOMAIN QueryHints THEN "$" ELSE r
      IN cardinality[r] =
           RootTable(a \in DOMAIN QueryHints,
                     IF a \in DOMAIN QueryHints THEN QueryHints[a] ELSE <<>>,
                     analysis.Joins)

\* a root hinted "$.x" over a join: an array
C5_Witness ==
  /\ pc = "rows"
  /\ FreeAliases = {"p"}
  /\ "p" \in DOMAIN QueryHints
  /\ QueryHints["p"] = <<DOLLAR, DOT, Id("x")>>
  /\ Len(analysis.Joins) = 1
  /\ cardinality["p"] = TRUE

HintKeys(hint) ==
  LET IsId(t) == t.k = "id"
      ids == SelectSeq(hint, IsId)
  IN [k \in 1..Len(ids) |-> <<ids[k]>>]

\* the node under the keys, a nil map when there is none
RECURSIVE At(_, _)
At(node, keys) ==
  IF keys = <<>> THEN node
  ELSE IF node.tag = "map" /\ OMHas(node.ch, Head(keys))
  THEN At(OMGet(node.ch, Head(keys)), Tail(keys))
  ELSE NilMap

\* C6: a query with one table, no joins and a hint H without "[]" for the
\* alias of the table returns a single mapping, not a sequence, and every
\* output column is a leaf under the keys H names (at the top for "$").
C6_SingleMapping ==
  ( /\ Reconstructed /\ ~iterErr
    /\ Len(query.from) = 1 /\ query.joins = <<>>
    /\ Len(query.hints) = 1
    /\ query.hints[1].alias = query.from[1].alias
    /\ ~Contains(query.hints[1].path, ARR) )
  => /\ result.st = "ok"
     /\ result.node.tag = "map"
     /\ \A i \in 1..Len(query.select) :
          At(result.node,
             HintKeys(query.hints[1].path) \o <<Key(query.select[i].name)>>).tag
            = "leaf"

\* ---------------------------------------------------------------- C7
\* joins, one root alias, and the root alias has a hint
C7_Case ==
  /\ pc \in {"rows", "collected", "done"}
  /\ Len(analysis.Joins) > 0
  /\ Cardinality(FreeAliases) = 1
  /\ \A r \in FreeAliases : r \in DOMAIN QueryHints

\* the paths of C7
C7_PathShapes ==
  C7_Case =>
    \A r \in FreeAliases :
      LET h == QueryHints[r]
          rootMark == IF cardinality[r] /\ ~HasSuffix(h, <<ARR>>)
                      THEN <<ARR>> ELSE <<>>
      IN \A i \in 1..Len(paths) :
           LET a == columnMapping[i].qual
               col == columnMapping[i].name
           IN /\ a = r => paths[i] = h \o rootMark \o <<DOT, Id(col)>>
              /\ (a \notin {"", r} /\ a \notin DOMAIN QueryHints) =>
                   paths[i] = h \o rootMark \o <<DOT, Id(a)>>
                                \o (IF cardinality[a] THEN <<ARR>> ELSE <<>>)
                                \o <<DOT, Id(col)>>

\* two rows that share the cells of the root alias and differ in the cells of
\* the joined alias, which is flagged array
C7_TwoChildren ==
  /\ C7_Case /\ Reconstructed /\ ~iterErr
  /\ Len(analysis.Joins) = 1
  /\ cardinality[analysis.Joins[1].RightAlias]
  /\ ~ShapeConflict(paths)
  /\ PositionsOf(columnMapping, analysis.Joins[1].LeftAlias) # <<>>
  /\ PositionsOf(columnMapping, analysis.Joins[1].RightAlias) # <<>>
  /\ Len(rows) = 2
  /\ Cells(rows[1], PositionsOf(columnMapping, analysis.Joins[1].LeftAlias))
       = Cells(rows[2], PositionsOf(columnMapping, analysis.Joins[1].LeftAlias))
  /\ Cells(rows[1], PositionsOf(columnMapping, analysis.Joins[1].RightAlias))
       # Cells(rows[2], PositionsOf(columnMapping, analysis.Joins[1].RightAlias))

\* the tree of C7's rows: one parent with both children
C7_OneParent ==
  C7_TwoChildren =>
    LET j == analysis.Joins[1]
        pp == PositionsOf(columnMapping, j.LeftAlias)
        cp == PositionsOf(columnMapping, j.RightAlias)
        outer == SlicesOf(result.node)
        parentNodes == IF cardinality[j.LeftAlias]
                       THEN IF Len(outer) = 1
                            THEN [n \in 1..Len(outer[1].ch) |-> outer[1].ch[n].n]
                            ELSE <<>>
                       ELSE <<result.node>>
    IN /\ result.st = "ok"
       /\ Len(parentNodes) = 1
       /\ LeavesOf(parentNodes[1]) = Cells(rows[1], pp)
       /\ Len(SlicesOf(parentNodes[1])) = 1
       /\ [m \in 1..Len(SlicesOf(parentNodes[1])[1].ch) |->
             LeavesOf(SlicesOf(parentNodes[1])[1].ch[m].n)]
            = <<Cells(rows[1], cp), Cells(rows[2], cp)>>

\* C7: with joins and a hint H for the root alias, a column of another alias A
\* without a hint of its own gets "H[].A[].col", "H[].A.col", "H.A[].col" or
\* "H.A.col" by the array flags of the root and of A, with no second "[]"
\* after an H that ends in "[]", and a column of the root alias gets
\* "H[].col" or "H.col"; two rows with equal root cells and different cells of
\* an array-flagged A are reconstructed into one parent with both children.
C7_RootHintNesting == C7_PathShapes /\ C7_OneParent

\* rows (1,1,1) and (1,1,2) under "-- PATH p $.x": {x: [{id, content, c: [..]}]}
C7_Witness ==
  /\ C7_TwoChildren
  /\ QueryHints["p"] = <<DOLLAR, DOT, Id("x")>>
  /\ paths = << <<DOLLAR, DOT, Id("x"), ARR, DOT, Id("id")>>,
                <<DOLLAR, DOT, Id("x"), ARR, DOT, Id("content")>>,
                <<DOLLAR, DOT, Id("x"), ARR, DOT, Id("c"), ARR, DOT, Id("id")>> >>
  /\ rows = << <<"1", "1", "1">>, <<"1", "1", "2">> >>
  /\ result.node =
       Map(<<Ent(Key("x"), Slice(<<Ent(<<>>, Map(<<
         Ent(Key("id"), Leaf("1")),
         Ent(Key("content"), Leaf("1")),
         Ent(Key("c"), Slice(<<Ent(<<>>, Map(<<Ent(Key("id"), Leaf("1"))>>)),
                               Ent(<<>>, Map(<<Ent(Key("id"), Leaf("2"))>>))>>))
       >>))>>))>>)

\* ---------------------------------------------------------------- C9
\* C9: the call returns an error only when the executor fails or the paths
\* ask for a shape conflict; every other call returns a tree, also one that
\* selects columns of a joined alias only. Stated for the calls that scanned
\* at least one row and whose paths ask for no shape conflict.
C9_ErrorOnlyFromExecutor ==
  (pc = "done" /\ rows # <<>> /\ ~ShapeConflict(paths))
    => result.st \in {"ok", "queryerr"}

\* ---------------------------------------------------------------- C10
\* C10: when the executor fails, at the start or at some row, the call returns
\* an error and no tree: never a tree built from the rows before the failure.
\* Stated for a failure after at least one row.
C10_NoTreeFromPrefix ==
  (pc = "done" /\ iterErr /\ rows # <<>>) => result.st # "ok"

\* ---------------------------------------------------------------- C11
\* the tree of one record, grouped by path prefix: "[]" opens an array of one
\* element, ".name" a key of a mapping
RECURSIVE DirectInsert(_, _, _)
DirectInsert(node, key, leaf) ==
  IF key = <<>> THEN leaf
  ELSE IF Head(key) = ARR
  THEN LET element == IF node.tag = "arr" /\ node.ch # <<>>
                      THEN node.ch[1].n ELSE NilMap
       IN Slice(<<Ent(<<>>, DirectInsert(element, Tail(key), leaf))>>)
  ELSE IF Head(key) = DOT /\ Len(key) > 1
  THEN LET ents == IF node.tag = "map" THEN node.ch ELSE <<>>
           name == <<key[2]>>
           child == IF OMHas(ents, name) THEN OMGet(ents, name) ELSE NilMap
       IN Map(OMSet(ents, name, DirectInsert(child, Tail(Tail(key)), leaf)))
  ELSE node

RECURSIVE DirectOne(_, _)
DirectOne(record, node) ==
  IF record = <<>> THEN node
  ELSE DirectOne(Tail(record), DirectInsert(node, Head(record).k, Head(record).n))

\* two trees put together: mappings key by key, arrays one after the other
RECURSIVE MergeTrees(_, _)
RECURSIVE MergeEnts(_, _)
MergeEnts(ents, more) ==
  IF more = <<>> THEN ents
  ELSE LET k == Head(more).k
       IN MergeEnts(OMSet(ents, k,
                          IF OMHas(ents, k)
                          THEN MergeTrees(OMGet(ents, k), Head(more).n)
                          ELSE Head(more).n),
                    Tail(more))
MergeTrees(a, b) ==
  IF a.tag = "nil" THEN b
  ELSE IF a.tag = "map" /\ b.tag = "map" THEN Map(MergeEnts(a.ch, b.ch))
  ELSE IF a.tag = "arr" /\ b.tag = "arr" THEN Slice(a.ch \o b.ch)
  ELSE b

\* the order of a resolved mapping: leaves, then nested children
RECURSIVE LeavesFirst(_)
LeavesFirst(node) ==
  IF node.tag \in {"map", "arr"}
  THEN LET IsLeaf(e) == e.n.tag = "leaf"
           IsNode(e) == e.n.tag # "leaf"
           ordered == IF node.tag = "map"
                      THEN SelectSeq(node.ch, IsLeaf) \o SelectSeq(node.ch, IsNode)
                      ELSE node.ch
       IN [node EXCEPT !.ch = [i \in 1..Len(ordered) |->
                                 Ent(ordered[i].k, LeavesFirst(ordered[i].n))]]
  ELSE node

RECURSIVE DirectAll(_, _)
DirectAll(recs, node) ==
  IF recs = <<>> THEN node
  ELSE DirectAll(Tail(recs), MergeTrees(node, DirectOne(Head(recs), NilMap)))

DirectGrouping(recs) == LeavesFirst(DirectAll(recs, NilMap))

\* no two records have the same fingerprint at an array boundary
NoSharedFingerprint(recs) ==
  LET groups == groupBySeparator(recs, ARR)
  IN \A i, j \in 1..Len(groups) :
       i < j =>
         \A a \in 1..Len(groups[i]) : \A b \in 1..Len(groups[j]) :
           ( /\ groups[i][a].k = groups[j][b].k
             /\ groups[i][a].k # <<>>
             /\ Last(groups[i][a].k) = ARR )
           => HashOf(groups[i][a].n) # HashOf(groups[j][b].n)

\* C11: when no two records share the fingerprint of an array boundary, the
\* pipeline group -> fingerprint -> merge -> resolve returns the tree of the
\* direct grouping of each record's leaves by their path prefix: every array
\* holds one element per record in record order and no leaf is added, dropped
\* or moved. Stated for at least one record and paths that ask for no shape
\* conflict.
C11_EqualsDirectGrouping ==
  ( /\ pc = "collected"
    /\ records # <<>>
    /\ hasArrayMarkers(paths)
    /\ ~ShapeConflict(paths)
    /\ NoSharedFingerprint(records) )
  => /\ FullPipeline(records).st = "ok"
     /\ FullPipeline(records).node = DirectGrouping(records)

\* ---------------------------------------------------------------- removeHashes on its own
MaxKeys == 2

TreeKeys == {"a", "b", "c"}

\* the sequences of at most n different keys
KeyLists(n) ==
  {ks \in UNION {[1..m -> TreeKeys] : m \in 0..n} :
     \A i, j \in 1..Len(ks) : ks[i] = ks[j] => i = j}

\* a leaf, or a mapping of one or two leaves
InnerNodes ==
  {Leaf("1")}
    \cup {Map([i \in 1..Len(ks) |-> Ent(Key(ks[i]), Leaf("1"))])
            : ks \in {k \in KeyLists(2) : Len(k) > 0 /\ \A i \in 1..Len(k) : k[i] # "c"}}

\* the merged trees without "[]" and without fingerprint keys
HashFreeTrees ==
  UNION {
    {Map([i \in 1..Len(ks) |-> Ent(Key(ks[i]), ns[i])]) : ns \in [1..Len(ks) -> InnerNodes]}
    : ks \in KeyLists(MaxKeys)}

InitResolve ==
  /\ pc = "tree"
  /\ tree \in HashFreeTrees
  /\ query = Query(<<>>, <<>>, <<>>, <<>>)
  /\ allFKs = <<>>
  /\ analysis = NoAnalysis
  /\ columnMapping = <<>>
  /\ cardinality = EmptyMap
  /\ paths = <<>>
  /\ rows = <<>>
  /\ records = <<>>
  /\ iterErr = FALSE
  /\ result = NoResult
  /\ metadataErr = FALSE
  /\ CacheInit
  /\ HandleInit
  /\ CellInit

\* result, err := db.removeHashes(tree, "$")
Resolve ==
  /\ pc = "tree"
  /\ result' = removeHashes(tree, <<DOLLAR>>)
  /\ pc' = "resolved"
  /\ UNCHANGED <<cacheVars, handleVars, cellVars, tree, metadataErr, query, allFKs, analysis, columnMapping, cardinality, paths,
                 rows, records, iterErr>>

NextResolve == Resolve

SpecResolve == InitResolve /\ [][NextResolve]_vars

\* ---------------------------------------------------------------- C12
\* C12 as stated: resolving a merged tree without "[]" and without
\* fingerprint keys returns a tree equal to its input, the order of the keys
\* at every level included, also when a nested child precedes a scalar leaf.
C12_ResolveIsNoOp ==
  pc = "resolved" => (result.st = "ok" /\ result.node = tree)

\* C12 amended: resolving such a tree returns the same leaves and nested
\* children under the same keys, at every level the scalar leaves first, in
\* their order, and the nested children after them, in their order; the tree
\* comes back unchanged when no nested child precedes a scalar leaf.
C12_LeavesThenChildren ==
  pc = "resolved" => (result.st = "ok" /\ result.node = LeavesFirst(tree))

\* a nested child before a scalar leaf: the leaf comes first in the result
C12_Witness ==
  /\ pc = "resolved"
  /\ tree = Map(<<Ent(Key("a"), Map(<<Ent(Key("b"), Leaf("1"))>>)),
                  Ent(Key("b"), Leaf("1"))>>)
  /\ result.node = Map(<<Ent(Key("b"), Leaf("1")),
                         Ent(Key("a"), Map(<<Ent(Key("b"), Leaf("1"))>>))>>)

\* ---------------------------------------------------------------- C13
\* C13: for "FROM posts, comments WHERE comments.post_id = posts.id" with the
\* hint "-- PATH posts $.posts" and the foreign key comments.post_id ->
\* posts.id, the columns of posts get "$.posts[].<col>" and the columns of
\* comments "$.posts[].comments[].<col>".
C13_CommaJoinNested ==
  ( /\ pc = "rows"
    /\ query.from = <<T("posts", ""), T("comments", "")>>
    /\ query.joins = <<>>
    /\ query.hints = <<H("posts", <<DOLLAR, DOT, Id("posts")>>)>>
    /\ \E k \in 1..Len(allFKs) :
         allFKs[k] = FK("comments", "post_id", "posts", "id") )
  => \A i \in 1..Len(paths) :
       /\ columnMapping[i].qual = "posts" =>
            paths[i] = <<DOLLAR, DOT, Id("posts"), ARR, DOT,
                         Id(columnMapping[i].name)>>
       /\ columnMapping[i].qual = "comments" =>
            paths[i] = <<DOLLAR, DOT, Id("posts"), ARR, DOT, Id("comments"), ARR,
                         DOT, Id(columnMapping[i].name)>>

\* ---------------------------------------------------------------- the metadata provider fails
FallbackQueries ==
  QuerySet(
    {<<T("posts", "p")>>},
    {<<>>, <<JoinComments(<<"INNER">>)>>},
    {<<>>, <<H("p", <<DOLLAR, DOT, Id("x")>>)>>},
    {<<S("", "n")>>,
     <<S("p", "id"), S("p", "content")>>,
     <<S("p", "id"), S("c", "id")>>})

InitFallback ==
  /\ pc = "start"
  /\ query \in FallbackQueries
  /\ allFKs = <<>>
  /\ analysis = NoAnalysis
  /\ columnMapping = <<>>
  /\ cardinality = EmptyMap
  /\ paths = <<>>
  /\ rows = <<>>
  /\ records = <<>>
  /\ iterErr = FALSE
  /\ result = NoResult
  /\ tree = NilMap
  /\ metadataErr = TRUE
  /\ CacheInit
  /\ HandleInit
  /\ CellInit

SpecFallback == InitFallback /\ [][Next]_vars

\* ---------------------------------------------------------------- C14
\* C14: when the metadata provider fails the call does not fail because of
\* it, and every output column named c gets the flat path "$[].c": the output
\* column name with no alias segment.
C14_FlatFallback ==
  (metadataErr /\ pc \in {"rows", "collected", "done"}) =>
    /\ \A i \in 1..Len(paths) :
         paths[i] = <<DOLLAR, ARR, DOT, Id(query.select[i].name)>>
    /\ (pc = "done" /\ ~iterErr /\ rows # <<>>) => result.st = "ok"

\* ---------------------------------------------------------------- malformed hints
\* "-- PATH p $." and "-- PATH p $..x": paths with an empty segment
MalformedHints ==
  {<<H("p", <<DOLLAR, DOT>>)>>,
   <<H("p", <<DOLLAR, DOT, DOT, Id("x")>>)>>}

MalformedQueries ==
  QuerySet(
    {<<T("posts", "p")>>},
    {<<>>, <<JoinComments(<<"INNER">>)>>},
    MalformedHints,
    {<<S("p", "id")>>, <<S("p", "id"), S("c", "id")>>})

InitMalformed == InitWith(MalformedQueries, FKLists)

SpecMalformed == InitMalformed /\ [][Next]_vars

\* ---------------------------------------------------------------- C15
\* what a call can return for a query, a list of foreign keys and the rows
\* the executor delivers
ResultsOf(q, fks, rws) ==
  UNION {
    UNION {
      LET built == buildCardinalityMap(a, fks, root0)
      IN {Reconstruct(ps, [i \in 1..Len(rws) |-> RecordOf(rws[i], ps, <<>>)])
            : ps \in InferPaths(built.analysis, ColumnMapping(q.select, a),
                                built.cardinality)}
      : root0 \in RootChoices(a)}
    : a \in AnalyzeQuery(q)}

\* C15: a malformed path hint never makes the call fail or crash: the result
\* is the result of the query without that hint. Stated for the calls that
\* scanned at least one row and met no failure of the executor.
C15_MalformedHintIgnored ==
  ( /\ Reconstructed /\ ~iterErr
    /\ rows # <<>>
    /\ query.hints \in MalformedHints )
  => result \in ResultsOf([query EXCEPT !.hints = <<>>], allFKs, rows)

\* =====================================================================
\* The metadata cache under concurrent lookups and invalidation
\* =====================================================================
\* Each piece of metadata is represented by the number of InvalidateCache
\* calls that had completed when it was read from the database. A section
\* of code that runs with r.mu held is one action: the lock makes it atomic.

MaxInvalidations == 2

Min(a, b) == IF a <= b THEN a ELSE b

InitCache ==
  /\ pc = "metadata"
  /\ query = Query(<<>>, <<>>, <<>>, <<>>)
  /\ allFKs = <<>>
  /\ analysis = NoAnalysis
  /\ columnMapping = <<>>
  /\ cardinality = EmptyMap
  /\ paths = <<>>
  /\ rows = <<>>
  /\ records = <<>>
  /\ iterErr = FALSE
  /\ result = NoResult
  /\ tree = NilMap
  /\ metadataErr = FALSE
  /\ CacheInit
  /\ HandleInit
  /\ CellInit

\* what the cache actions leave alone
pipelineVars == <<pc, query, allFKs, analysis, columnMapping, cardinality,
                  paths, rows, records, iterErr, result, tree, metadataErr,
                  handleVars, cellVars>>

\* the call returns: data holds what it returns, nothing for an error
Return(r, data) ==
  lookup' = [lookup EXCEPT ![r].at = "idle", ![r].returned = data]

\* r.mu.Lock(); r.cache = make(...); r.fkCache = nil; r.mu.Unlock()
InvalidateCache ==
  /\ epoch < MaxInvalidations
  /\ fkCache' = {}
  /\ tableCache' = {}
  /\ epoch' = epoch + 1
  /\ UNCHANGED <<lookup, pipelineVars>>

\* a goroutine calls GetAllForeignKeys
CallGetAllForeignKeys(r) ==
  /\ lookup[r].at = "idle"
  /\ lookup' = [lookup EXCEPT ![r] = [Idle EXCEPT !.at = "fkCheck",
                                       !.op = "fk", !.start = epoch]]
  /\ UNCHANGED <<fkCache, tableCache, epoch, pipelineVars>>

\* a goroutine calls GetTableMetadata
CallGetTableMetadata(r) ==
  /\ lookup[r].at = "idle"
  /\ lookup' = [lookup EXCEPT ![r] = [Idle EXCEPT !.at = "tmCheck",
                                       !.op = "tm", !.start = epoch]]
  /\ UNCHANGED <<fkCache, tableCache, epoch, pipelineVars>>

\* GetTableMetadata: the cache check under RLock
CheckTableCache(r) ==
  /\ lookup[r].at = "tmCheck"
  /\ IF tableCache # {}
     THEN Return(r, tableCache)
     ELSE lookup' = [lookup EXCEPT ![r].at = "tmFetch"]
  /\ UNCHANGED <<fkCache, tableCache, epoch, pipelineVars>>

\* GetTableMetadata: getColumns and getPrimaryKeys read the database
FetchColumns(r) ==
  /\ lookup[r].at = "tmFetch"
  /\ lookup' = [lookup EXCEPT ![r].at = "fkCheck", ![r].cols = epoch]
  /\ UNCHANGED <<fkCache, tableCache, epoch, pipelineVars>>

\* GetTableMetadata: getColumns or getPrimaryKeys returns an error
FetchColumnsFails(r) ==
  /\ lookup[r].at = "tmFetch"
  /\ Return(r, {})
  /\ UNCHANGED <<fkCache, tableCache, epoch, pipelineVars>>

\* GetAllForeignKeys, called directly or through GetForeignKeys: the cache
\* check under RLock
CheckFKCache(r) ==
  /\ lookup[r].at = "fkCheck"
  /\ IF fkCache # {}
     THEN IF lookup[r].op = "fk"
          THEN Return(r, fkCache)
          ELSE lookup' = [lookup EXCEPT ![r].at = "tmStore",
                            ![r].fks = CHOOSE e \in fkCache : TRUE]
     ELSE lookup' = [lookup EXCEPT ![r].at = "fkFetch"]
  /\ UNCHANGED <<fkCache, tableCache, epoch, pipelineVars>>

\* GetAllForeignKeys: getMySQLForeignKeys / getPostgresForeignKeys
FetchForeignKeys(r) ==
  /\ lookup[r].at = "fkFetch"
  /\ lookup' = [lookup EXCEPT ![r].at = "fkStore", ![r].fks = epoch]
  /\ UNCHANGED <<fkCache, tableCache, epoch, pipelineVars>>

\* GetAllForeignKeys: unsupported driver, or the query fails
FetchForeignKeysFails(r) ==
  /\ lookup[r].at = "fkFetch"
  /\ Return(r, {})
  /\ UNCHANGED <<fkCache, tableCache, epoch, pipelineVars>>

\* GetAllForeignKeys: r.mu.Lock(); r.fkCache = fks; r.mu.Unlock()
StoreForeignKeys(r) ==
  /\ lookup[r].at = "fkStore"
  /\ fkCache' = {lookup[r].fks}
  /\ IF lookup[r].op = "fk"
     THEN Return(r, {lookup[r].fks})
     ELSE lookup' = [lookup EXCEPT ![r].at = "tmStore"]
  /\ UNCHANGED <<tableCache, epoch, pipelineVars>>

\* GetTableMetadata: r.mu.Lock(); r.cache[tableName] = metadata;
\* r.mu.Unlock(). The metadata is as old as its oldest part.
StoreTableMetadata(r) ==
  /\ lookup[r].at = "tmStore"
  /\ tableCache' = {Min(lookup[r].cols, lookup[r].fks)}
  /\ Return(r, {Min(lookup[r].cols, lookup[r].fks)})
  /\ UNCHANGED <<fkCache, epoch, pipelineVars>>

NextCache ==
  \/ InvalidateCache
  \/ \E r \in Readers :
       \/ CallGetAllForeignKeys(r)
       \/ CallGetTableMetadata(r)
       \/ CheckTableCache(r)
       \/ FetchColumns(r)
       \/ FetchColumnsFails(r)
       \/ CheckFKCache(r)
       \/ FetchForeignKeys(r)
       \/ FetchForeignKeysFails(r)
       \/ StoreForeignKeys(r)
       \/ StoreTableMetadata(r)

SpecCache == InitCache /\ [][NextCache]_vars

\* ---------------------------------------------------------------- C16
\* C16: data read from the database before an InvalidateCache call completed
\* is never in the cache after that call completed, and a lookup that starts
\* after the invalidation never returns such data.
C16_NoStaleData ==
  /\ \A e \in fkCache \cup tableCache : e = epoch
  /\ \A r \in Readers :
       lookup[r].at = "idle" =>
         \A e \in lookup[r].returned : e >= lookup[r].start

\* ---------------------------------------------------------------- C17
\* PathQuery takes the object fast path or the flat-array path
ShortcutTaken ==
  \/ isObjectResult(paths) /\ Len(records) > 0
  \/ ~hasArrayMarkers(paths)

\* C17: whenever PathQuery takes one of its two shortcuts, its result is what
\* group, fingerprint, merge and resolve return for the same records, for
\* every number of records.
C17_ShortcutEqualsPipeline ==
  (Reconstructed /\ ~iterErr /\ ShortcutTaken) =>
    result = FullPipeline(records)

\* =====================================================================
\* Several JOIN clauses, on one line or on lines of their own
\* =====================================================================
JoinQueries ==
  QuerySet(
    {<<T("posts", "p")>>},
    {<<JoinComments(k1), j2>>
       : k1 \in {<<>>, <<"LEFT">>},
         j2 \in {JoinCategories(<<>>), JoinCategories(<<"LEFT">>),
                 OnSameLine(JoinCategories(<<>>)),
                 OnSameLine(JoinCategories(<<"LEFT">>))}},
    {<<>>},
    {<<S("p", "id"), S("c", "id")>>,
     <<S("p", "id"), S("cat", "id")>>})

InitJoins == InitWith(JoinQueries, FKLists)

SpecJoins == InitJoins /\ [][Next]_vars

\* ---------------------------------------------------------------- C18
\* C18: a query with k JOIN clauses, on one line or several, gets exactly k
\* join edges in textual order; each edge has the table, the alias and the
\* condition of its own clause only, a missing kind is recorded as INNER, and
\* every joined alias is in the table map.
C18_OneEdgePerClause ==
  pc # "start" =>
    /\ Len(analysis.Joins) = Len(query.joins)
    /\ \A i \in 1..Len(query.joins) :
         LET clause == query.joins[i]
             alias == IF clause.alias # "" THEN clause.alias ELSE clause.table
         IN /\ alias \in DOMAIN analysis.Tables
            /\ i <= Len(analysis.Joins) =>
                 /\ analysis.Joins[i].RightAlias = alias
                 /\ analysis.Joins[i].RightTable = clause.table
                 /\ analysis.Joins[i].OnColumns = parseJoinCondition(clause.on)
                 /\ clause.kind = <<>> => analysis.Joins[i].JoinType = "INNER"

\* =====================================================================
\* FROM items with parentheses
\* =====================================================================
FromQueries ==
  QuerySet(
    {<<Call("generate_series", <<"1", "3">>, "g")>>,
     <<Call("unnest", <<"xs">>, "g")>>,
     <<Call("generate_series", <<"1", "3", "2">>, "")>>,
     <<T("posts", "p"), Call("generate_series", <<"1", "3">>, "g")>>,
     <<T("posts", "p")>>},
    {<<>>},
    {<<>>},
    {<<S("", "n")>>, <<S("", "n"), S("", "m")>>})

InitFrom == InitWith(FromQueries, FKLists)

SpecFrom == InitFrom /\ [][Next]_vars

\* ---------------------------------------------------------------- C19
\* C19: a FROM item with a comma between parentheses yields exactly one entry
\* of the table map: the table map has one entry for each item of the FROM
\* list, under the alias the item declares.
C19_OneEntryPerItem ==
  ( /\ pc # "start"
    /\ \E i \in 1..Len(query.from) : Len(query.from[i].args) > 1 )
  => /\ Cardinality(DOMAIN analysis.Tables) = Len(query.from)
     /\ \A i \in 1..Len(query.from) :
          query.from[i].alias # "" => query.from[i].alias \in DOMAIN analysis.Tables

\* ---------------------------------------------------------------- C20
\* no foreign key matches the predicate columns of the join, or the join has
\* no parseable predicate
NoMatchingFK(j) == ScanOnColumns(j, j.OnColumns, allFKs) = "none"

\* C20: a join written as LEFT JOIN or LEFT OUTER JOIN that no foreign key
\* matches flags its alias array; a join of any other kind that no foreign
\* key matches flags its alias object.
C20_KindDecidesWithoutFK ==
  pc = "rows" =>
    \A n \in 1..Len(query.joins) :
      LET j == analysis.Joins[n]
      IN NoMatchingFK(j) =>
           cardinality[j.RightAlias]
             = (query.joins[n].kind \in {<<"LEFT">>, <<"LEFT", "OUTER">>})

\* ---------------------------------------------------------------- C21
\* C21: when the right table of a join has a foreign key to the left table on
\* a predicate column, the joined alias is flagged array, also when a foreign
\* key from the left table to the right table matches the predicate, in
\* whatever order the foreign keys are listed.
C21_RightToLeftWins ==
  pc = "rows" =>
    \A n \in 1..Len(analysis.Joins) :
      LET j == analysis.Joins[n]
      IN RefersTo(allFKs, j.RightTable, j.RightAlias, j.LeftTable, j.OnColumns)
           => cardinality[j.RightAlias] = TRUE

\* ---------------------------------------------------------------- C22
\* the records after groupBySeparator and addHashes
Fingerprinted == addHashes(groupBySeparator(records, ARR))

\* C22: after addHashes no record key contains a "[]" marker, also when a
\* boundary has no column of its own.
C22_NoMarkerLeft ==
  (pc = "collected" /\ hasArrayMarkers(paths)) =>
    \A i \in 1..Len(Fingerprinted) : \A e \in 1..Len(Fingerprinted[i]) :
      ~Contains(Fingerprinted[i][e].k, ARR)

\* =====================================================================
\* convertBytes
\* =====================================================================
MaxText == 5

DecimalDigits == {"0", "1"}
Signs == {"+", "-"}
Chars == DecimalDigits \cup {".", "a", "-"}

\* the payloads: the texts of up to MaxText characters
Texts == UNION {[1..n -> Chars] : n \in 0..MaxText}

\* the pipeline at rest, but for the paths
PipelineIdle(at) ==
  /\ pc = at
  /\ query = Query(<<>>, <<>>, <<>>, <<>>)
  /\ allFKs = <<>>
  /\ analysis = NoAnalysis
  /\ columnMapping = <<>>
  /\ cardinality = EmptyMap
  /\ rows = <<>>
  /\ records = <<>>
  /\ iterErr = FALSE
  /\ result = NoResult
  /\ tree = NilMap
  /\ metadataErr = FALSE

\* the longest prefix of s made of characters of set
RECURSIVE Accept(_, _)
Accept(s, set) ==
  IF s # <<>> /\ Head(s) \in set THEN <<Head(s)>> \o Accept(Tail(s), set)
  ELSE <<>>

Drop(s, n) == SubSeq(s, n + 1, Len(s))

\* fmt.Sscanf(s, "%d", &i): an optional sign and the digits that follow; an
\* error when there is no digit. What follows the digits is left unread.
ScanInt(s) ==
  LET sign == IF s # <<>> /\ Head(s) \in Signs THEN <<Head(s)>> ELSE <<>>
      digits == Accept(Drop(s, Len(sign)), DecimalDigits)
  IN [ok |-> digits # <<>>, sign |-> sign, digits |-> digits]

RECURSIVE StripZeros(_)
StripZeros(digits) ==
  IF Len(digits) > 1 /\ Head(digits) = "0" THEN StripZeros(Tail(digits))
  ELSE digits

\* fmt.Sprintf("%d", i) of the integer ScanInt read
FormatInt(sign, digits) ==
  LET d == StripZeros(digits)
  IN IF d = <<"0">> \/ sign # <<"-">> THEN d ELSE <<"-">> \o d

\* fmt.Sscanf(s, "%f", &f): floatToken takes an optional sign, digits, and a
\* period with the digits after it; strconv.ParseFloat fails on a token
\* without a digit. What follows the token is left unread.
ScanFloat(s) ==
  LET sign == IF s # <<>> /\ Head(s) \in Signs THEN <<Head(s)>> ELSE <<>>
      s1 == Drop(s, Len(sign))
      whole == Accept(s1, DecimalDigits)
      s2 == Drop(s1, Len(whole))
      period == IF s2 # <<>> /\ Head(s2) = "." THEN <<".">> ELSE <<>>
      fraction == IF period # <<>> THEN Accept(Tail(s2), DecimalDigits) ELSE <<>>
  IN [ok |-> whole # <<>> \/ fraction # <<>>,
      token |-> sign \o whole \o period \o fraction]

IntValue(text) == [type |-> "int", text |-> text]
FloatValue(token) == [type |-> "float", text |-> token]
TextValue(s) == [type |-> "string", text |-> s]

HasPeriod(s) == \E i \in 1..Len(s) : s[i] = "."

convertBytes(s) ==
  LET i == ScanInt(s)
      f == ScanFloat(s)
  IN IF i.ok /\ FormatInt(i.sign, i.digits) = s THEN IntValue(s)
     ELSE IF f.ok /\ HasPeriod(s) THEN FloatValue(f.token)
     ELSE TextValue(s)

InitConvert ==
  /\ PipelineIdle("bytes")
  /\ paths = <<>>
  /\ CacheInit
  /\ HandleInit
  /\ cell \in Texts
  /\ value = NoValue

\* getAllRecords: value = convertBytes(b)
ConvertCell ==
  /\ pc = "bytes"
  /\ value' = convertBytes(cell)
  /\ pc' = "converted"
  /\ UNCHANGED <<cell, cacheVars, handleVars, query, allFKs, analysis,
                 columnMapping, cardinality, paths, rows, records, iterErr,
                 result, tree, metadataErr>>

NextConvert == ConvertCell

SpecConvert == InitConvert /\ [][NextConvert]_vars

\* ---------------------------------------------------------------- C23
\* the whole text is an integer literal: an optional minus and digits
IsIntegerLiteral(s) ==
  LET body == IF s # <<>> /\ Head(s) = "-" THEN Tail(s) ELSE s
  IN body # <<>> /\ \A k \in 1..Len(body) : body[k] \in DecimalDigits

\* the whole text is a decimal literal with a period
IsDecimalLiteral(s) ==
  LET body == IF s # <<>> /\ Head(s) = "-" THEN Tail(s) ELSE s
  IN /\ \A k \in 1..Len(body) : body[k] \in DecimalDigits \cup {"."}
     /\ Cardinality({k \in 1..Len(body) : body[k] = "."}) = 1
     /\ Len(body) > 1

\* C23: a payload becomes an integer only if the whole text is an integer
\* literal and a float only if the whole text is a decimal literal with a
\* period; any other text is returned unchanged as text.
C23_WholeTextDecides ==
  pc = "converted" =>
    /\ value.type = "int" => IsIntegerLiteral(cell)
    /\ value.type = "float" => IsDecimalLiteral(cell)
    /\ (~IsIntegerLiteral(cell) /\ ~IsDecimalLiteral(cell)) => value = TextValue(cell)

\* =====================================================================
\* ValidatePaths
\* =====================================================================
MaxPaths == 3

PathPool ==
  {<<DOLLAR, DOT, Id("x"), DOT, Id("a")>>,
   <<DOLLAR, DOT, Id("x"), ARR, DOT, Id("b")>>,
   <<DOLLAR, DOT, Id("x"), DOT, Id("b")>>,
   <<DOLLAR, DOT, Id("x")>>,
   <<DOLLAR, DOT, Id("x"), ARR>>,
   <<DOLLAR, ARR, DOT, Id("a")>>,
   <<DOLLAR, DOT, Id("a")>>}

\* the values of a path map, each map with distinct paths
PathMaps ==
  UNION {{ps \in [1..n -> PathPool] : \A i, j \in 1..n : ps[i] = ps[j] => i = j}
           : n \in 1..MaxPaths}

\* the orders "for _, path := range paths" can take
Orders(n) == {f \in [1..n -> 1..n] : \A i, j \in 1..n : f[i] = f[j] => i = j}

\* the loop of ValidatePaths over the paths in one order; pathMap holds the
\* keys set to true
RECURSIVE ValidateLoop(_, _)
ValidateLoop(ps, pathMap) ==
  IF ps = <<>> THEN "nil"
  ELSE LET path == Head(ps)
           parts == Split(path, DOT)
           basePath == Join(Front(parts), DOT)
           arrayPath == basePath \o <<ARR>>
       IN IF Len(parts) > 1
          THEN IF basePath \in pathMap /\ Contains(path, ARR) THEN "error"
               ELSE IF arrayPath \in pathMap /\ ~Contains(path, ARR) THEN "error"
               ELSE ValidateLoop(Tail(ps), pathMap \cup {path})
          ELSE ValidateLoop(Tail(ps), pathMap)

ValidatePaths(ps) ==
  {ValidateLoop([i \in 1..Len(ps) |-> ps[order[i]]], {}) : order \in Orders(Len(ps))}

InitValidate ==
  /\ PipelineIdle("inferred")
  /\ paths \in PathMaps
  /\ CacheInit
  /\ HandleInit
  /\ CellInit

\* err := engine.ValidatePaths(paths)
Validate ==
  /\ pc = "inferred"
  /\ \E err \in ValidatePaths(paths) :
       result' = Outcome(err, NilMap, <<>>, <<>>)
  /\ pc' = "validated"
  /\ UNCHANGED <<paths, cacheVars, handleVars, cellVars, query, allFKs,
                 analysis, columnMapping, cardinality, rows, records, iterErr,
                 tree, metadataErr>>

NextValidate == Validate

SpecValidate == InitValidate /\ [][NextValidate]_vars

\* ---------------------------------------------------------------- C24
\* the path without its final property
BasePath(path) == Join(Front(Split(path, DOT)), DOT)

\* a base path is used both as a non-array and as an array
BaseUsedBothWays(ps) ==
  \E i, j \in 1..Len(ps) :
    /\ Len(Split(ps[i], DOT)) > 1 /\ Len(Split(ps[j], DOT)) > 1
    /\ BasePath(ps[j]) = BasePath(ps[i]) \o <<ARR>>

\* C24: ValidatePaths returns an error for every path set in which a base
\* path is used both as a non-array and as an array, in whatever order the
\* map is walked, and nil for every other path set.
C24_ConflictDetected ==
  pc = "validated" =>
    (result.st = "error") = BaseUsedBothWays(paths)

\* =====================================================================
\* PathQuery calls on one handle and its metadata reader
\* =====================================================================
\* The field db.metadataReader is read and written without a lock; each
\* read and each write is taken as one step.

InitHandle ==
  /\ PipelineIdle("handle")
  /\ paths = <<>>
  /\ CacheInit
  /\ HandleInit
  /\ CellInit

\* what the actions on the handle leave alone
restVars == <<pc, query, allFKs, analysis, columnMapping, cardinality, paths,
              rows, records, iterErr, result, tree, metadataErr, cacheVars,
              cellVars>>

\* a goroutine calls db.PathQuery
CallPathQuery(c) ==
  /\ call[c].at \in {"idle", "done"}
  /\ call' = [call EXCEPT ![c].at = "check"]
  /\ UNCHANGED <<metadataReader, created, restVars>>

\* if db.metadataReader == nil
CheckReader(c) ==
  /\ call[c].at = "check"
  /\ call' = [call EXCEPT ![c].at = IF metadataReader = 0 THEN "create" ELSE "run"]
  /\ UNCHANGED <<metadataReader, created, restVars>>

\* db.metadataReader = NewMetadataReader(db.DB.DB, db.DriverName())
CreateReader(c) ==
  /\ call[c].at = "create"
  /\ created' = created + 1
  /\ metadataReader' = created + 1
  /\ call' = [call EXCEPT ![c].at = "run"]
  /\ UNCHANGED restVars

\* engine := NewPathInferenceEngine(db.metadataReader)
UseReader(c) ==
  /\ call[c].at = "run"
  /\ call' = [call EXCEPT ![c] = [at |-> "done", uses |-> metadataReader]]
  /\ UNCHANGED <<metadataReader, created, restVars>>

NextHandle ==
  \E c \in Callers :
    \/ CallPathQuery(c)
    \/ CheckReader(c)
    \/ CreateReader(c)
    \/ UseReader(c)

SpecHandle == InitHandle /\ [][NextHandle]_vars

\* ---------------------------------------------------------------- C25
\* C25: at most one metadata reader is ever created for a handle, and all
\* PathQuery calls on the handle use the same reader, concurrent calls that
\* start before the reader exists included.
C25_OneReaderPerHandle ==
  /\ created <= 1
  /\ \A c, d \in Callers :
       (call[c].uses # 0 /\ call[d].uses # 0) => call[c].uses = call[d].uses

\* ---------------------------------------------------------------- C26
\* C26: path inference leaves the query analysis as AnalyzeQuery produced it:
\* the step from the executed query to the inferred paths changes neither the
\* table map, nor the join list, nor the hint map.
C26_AnalysisUnchanged ==
  [][(pc = "queried" /\ pc' = "rows") => analysis' = analysis]_vars

\* ---------------------------------------------------------------- C27
\* the path lists the calls with one query and one list of foreign keys can
\* assign
PathListsOf(q, fks) ==
  UNION {
    UNION {
      LET built == buildCardinalityMap(a, fks, root0)
      IN InferPaths(built.analysis, ColumnMapping(q.select, a), built.cardinality)
      : root0 \in RootChoices(a)}
    : a \in AnalyzeQuery(q)}

\* C27: path assignment is deterministic: every call with the same query and
\* the same foreign keys assigns the same path to every column.
C27_OnePathAssignment ==
  pc = "rows" => PathListsOf(query, allFKs) = {paths}

\* ---------------------------------------------------------------- C28
\* C28: when the query yields no rows and every path is array-rooted,
\* PathQuery returns the empty sequence and no error.
C28_NoRowsEmptySequence ==
  ( /\ Reconstructed /\ ~iterErr
    /\ rows = <<>>
    /\ \A i \in 1..Len(paths) : HasPrefix(paths[i], <<DOLLAR, ARR>>) )
  => /\ result.st = "ok"
     /\ result.node = Slice(<<>>)

\* ---------------------------------------------------------------- C29
\* the scalar leaves of an array element that lie in no inner array, with
\* the keys that lead to them
RECURSIVE NamedLeaves(_, _)
RECURSIVE NamedLeavesOfEnts(_, _)
NamedLeavesOfEnts(ents, prefix) ==
  IF ents = <<>> THEN <<>>
  ELSE NamedLeaves(Head(ents).n, prefix \o <<Head(ents).k>>)
         \o NamedLeavesOfEnts(Tail(ents), prefix)
NamedLeaves(node, prefix) ==
  IF node.tag = "leaf" THEN <<[name |-> prefix, v |-> node.v]>>
  ELSE IF node.tag = "map" THEN NamedLeavesOfEnts(node.ch, prefix)
  ELSE <<>>

\* no array of the tree, at any depth, holds two elements with the same
\* leaves
RECURSIVE NoTwins(_)
NoTwins(node) ==
  /\ node.tag = "arr" =>
       \A m, n \in 1..Len(node.ch) :
         NamedLeaves(node.ch[m].n, <<>>) = NamedLeaves(node.ch[n].n, <<>>) => m = n
  /\ \A m \in 1..Len(node.ch) : NoTwins(node.ch[m].n)

\* the columns of the outermost array segment: one "[]" in their path
OuterPositions ==
  LET Outer(i) == Cardinality({k \in 1..Len(paths[i]) : paths[i][k] = ARR}) = 1
  IN SelectSeq([i \in 1..Len(paths) |-> i], Outer)

C29_Case ==
  /\ Reconstructed /\ ~iterErr
  /\ hasArrayMarkers(paths)
  /\ result.st = "ok"

LeftJoinQueries ==
  QuerySet(
    {<<T("posts", "p")>>},
    {<<JoinComments(<<"LEFT">>)>>},
    {<<>>},
    {<<S("p", "id"), S("c", "id")>>,
     <<S("p", "id"), S("c", "id"), S("c", "m")>>})

InitLeft == InitWith(LeftJoinQueries, {SchemaFKs, <<>>})

\* the rows a LEFT JOIN delivers for the columns of the parent alias p and
\* the child alias c: the child cells of a row are all NULL or all values
LeftJoinRows ==
  {row \in [1..Len(paths) -> Values \cup {Null}] :
     /\ \A i \in 1..Len(paths) : columnMapping[i].qual = "p" => row[i] # Null
     /\ \A i, j \in 1..Len(paths) :
          (columnMapping[i].qual = "c" /\ columnMapping[j].qual = "c")
            => (row[i] = Null) = (row[j] = Null)}

Unmatched(row) ==
  \A i \in 1..Len(row) : columnMapping[i].qual = "c" => row[i] = Null

\* the next row of a LEFT JOIN: a parent without a child has one row, and a
\* parent with children has no row of NULL child cells
RowsNextLeft ==
  /\ pc = "rows"
  /\ Len(rows) < MaxRows
  /\ \E row \in LeftJoinRows :
       /\ \A r \in 1..Len(rows) :
            Cells(rows[r], PositionsOf(columnMapping, "p"))
                = Cells(row, PositionsOf(columnMapping, "p"))
              => (~Unmatched(rows[r]) /\ ~Unmatched(row))
       /\ rows' = Append(rows, row)
       /\ records' = Append(records, RecordOf(row, paths, <<>>))
  /\ UNCHANGED <<cacheVars, handleVars, cellVars, tree, metadataErr, pc, query,
                 allFKs, analysis, columnMapping, cardinality, paths, iterErr,
                 result>>

NextLeft ==
  \/ Analyze
  \/ NamedQueryFails
  \/ NamedQuery
  \/ Infer
  \/ RowsNextLeft
  \/ SliceScanFails
  \/ RowsExhausted
  \/ RowsNextFails
  \/ Finish

SpecLeft == InitLeft /\ [][NextLeft]_vars

\* ---------------------------------------------------------------- C30
C30_Case ==
  /\ Reconstructed /\ ~iterErr
  /\ rows # <<>>
  /\ CardOf(cardinality, "c") = TRUE

\* C30: for a LEFT JOIN whose joined alias is flagged array, a parent row
\* with no matching child (all child cells NULL) yields a parent element
\* whose child array has exactly one element, with all leaves null.
C30_UnmatchedParentHasNullChild ==
  C30_Case =>
    /\ result.st = "ok"
    /\ LET pp == PositionsOf(columnMapping, "p")
           cp == PositionsOf(columnMapping, "c")
           outer == SlicesOf(result.node)
       IN /\ Len(outer) = 1
          /\ \A r \in 1..Len(rows) :
               Unmatched(rows[r]) =>
                 \E n \in 1..Len(outer[1].ch) :
                   LET element == outer[1].ch[n].n
                       inner == SlicesOf(element)
                   IN /\ LeavesOf(element) = Cells(rows[r], pp)
                      /\ Len(inner) = 1
                      /\ Len(inner[1].ch) = 1
                      /\ LeavesOf(inner[1].ch[1].n) = [k \in 1..Len(cp) |-> Null]

\* a parent with two children and a parent with none
C30_Witness ==
  /\ C30_Case
  /\ Len(rows) = 3
  /\ ~Unmatched(rows[1]) /\ ~Unmatched(rows[2]) /\ Unmatched(rows[3])
  /\ rows[1] # rows[2]
  /\ Len(query.select) = 3
  /\ result.st = "ok"

====
